---- MODULE Spec2Model ----
(***************************************************************************)
(* SimplePlotter firmware: serial line assembler, bounded command queue,   *)
(* dispatcher loop and its command handlers, homing coordinator.           *)
(* Lengths are whole millimetres, stepper counters are whole steps.        *)
(***************************************************************************)
EXTENDS Integers, Sequences, FiniteSets, TLC

(* ------------------------------------------------------------------ *)
(* Configuration (config.h)                                            *)
(* ------------------------------------------------------------------ *)
GCODE_BUFFER_SIZE == 8
X_MAX_POS == 234
Y_MAX_POS == 191
Z_MAX_POS == 203
X_STEPS_PER_MM == 160
Y_STEPS_PER_MM == 160
Z_STEPS_PER_MM == 400
PEN_UP_Z == 3
Z_HOME_POSITION == 2
HOME_DIR_X == 1
HOME_DIR_Y == -1
HOME_DIR_Z == -1
MAX_ALLOWED_JUMP_MM == 1000
DISABLE_STEPPERS_AFTER_IDLE_S == 600
ERR_UNKNOWN_COMMAND == 1
ERR_OUT_OF_RANGE == 3
ERR_HOMING_FAILED == 5
ERR_NOT_HOMED == 6
ERR_BUFFER_OVERFLOW == 7
ENDSTOP_X_MIN_INVERTING == FALSE
ENDSTOP_Y_MIN_INVERTING == TRUE
ENDSTOP_Z_MIN_INVERTING == FALSE
ENDSTOP_DEBOUNCE_MS == 10
GCODE_MAX_LENGTH == 64

(* ------------------------------------------------------------------ *)
(* Bounds of the exploration                                           *)
(* ------------------------------------------------------------------ *)
\* lines the host sends in the general specification
MaxLines == 2
\* lines the host sends in the move specification
MaxMoveLines == 3
\* lines the host sends in the homing specification
MaxHomeLines == 3
\* lines the host sends in the operator-panel specification
MaxPanelLines == 2
\* lines the host sends in the flooding specification
MaxFloodLines == 10
\* operator-panel events (button clicks, knob turns)
MaxUiEvents == 1
\* lines the host sends in the jog specification
MaxJogLines == 3
\* lines the host sends in the jog-abort specification
MaxAbortLines == 3
\* lines the host sends in the idle-timeout specification
MaxIdleLines == 3
\* control lines the host sends while a file is executed
MaxControls == 2
\* lines the host sends in the stop specification
MaxStopLines == 3
\* chunks of bytes the host sends in the byte-level specification
MaxChunks == 5
\* milliseconds the endstop specification follows the pins
MaxMillis == 13

Axes == {"X", "Y", "Z"}

StepsPerMm(a) ==
    CASE a = "X" -> X_STEPS_PER_MM
      [] a = "Y" -> Y_STEPS_PER_MM
      [] OTHER -> Z_STEPS_PER_MM

MaxPos(a) ==
    CASE a = "X" -> X_MAX_POS
      [] a = "Y" -> Y_MAX_POS
      [] OTHER -> Z_MAX_POS

MAX_VELOCITY_XY == 100

MAX_VELOCITY_Z == 10

\* configured maximum velocity of an axis, mm/s
MaxVelocity(a) == IF a = "Z" THEN MAX_VELOCITY_Z ELSE MAX_VELOCITY_XY

\* a speed in mm/min, as a fraction
MmPerMin(mm_s) == [num |-> mm_s * 60, den |-> 1]

HomeDir(a) ==
    CASE a = "X" -> HOME_DIR_X
      [] a = "Y" -> HOME_DIR_Y
      [] OTHER -> HOME_DIR_Z

(* ------------------------------------------------------------------ *)
(* Kinematics                                                          *)
(* ------------------------------------------------------------------ *)
\* (long)(mm * STEPS_PER_MM): the cast truncates toward zero
MmToStepsAxis(a, mm) == mm * StepsPerMm(a)

MmToSteps(p) == [a \in Axes |-> MmToStepsAxis(a, p[a])]

\* (float)steps / STEPS_PER_MM, on the whole-millimetre grid
StepsToMmAxis(a, s) ==
    IF s >= 0 THEN s \div StepsPerMm(a) ELSE -((-s) \div StepsPerMm(a))

\* A faulty range test that forgets the upper limits.
isValidPositionNoMax(p) ==
    /\ ~(p.X < 0)
    /\ ~(p.Y < 0)
    /\ ~(p.Z < 0)

isValidPosition(p) ==
    /\ ~(p.X < 0 \/ p.X > X_MAX_POS)
    /\ ~(p.Y < 0 \/ p.Y > Y_MAX_POS)
    /\ ~(p.Z < 0 \/ p.Z > Z_MAX_POS)

(* ------------------------------------------------------------------ *)
(* Input lines and the parser                                          *)
(* A line is its first character, the digits that follow it and the    *)
(* parameter letters with their optional number.                       *)
(* ------------------------------------------------------------------ *)
NoArgs == [l \in {} |-> <<>>]

Line(letter, digits, args) ==
    [letter |-> letter, digits |-> digits, args |-> args, junk |-> FALSE]

RECURSIVE AtoiFrom(_, _)
AtoiFrom(ds, acc) ==
    IF ds = <<>> THEN acc ELSE AtoiFrom(Tail(ds), 10 * acc + Head(ds))

\* atoi: the leading digits as a number, 0 when there is none
Atoi(ds) == AtoiFrom(ds, 0)

\* strstr finds the letter and a number follows it
extract_float_param(line, l) ==
    l \in DOMAIN line.args /\ line.args[l] # <<>>

ParamVal(line, l) ==
    IF extract_float_param(line, l) THEN line.args[l][1] ELSE 0

\* strstr finds the letter
has_axis_param(line, l) == l \in DOMAIN line.args

CmdType(line) ==
    LET n == Atoi(line.digits) IN
    CASE line.letter = "G" ->
            (CASE n = 0 -> "G0"
               [] n = 1 -> "G1"
               [] n = 28 -> "G28"
               [] n = 90 -> "G90"
               [] n = 91 -> "G91"
               [] n = 92 -> "G92"
               [] OTHER -> "UNKNOWN")
      [] line.letter = "M" ->
            (CASE n = 0 -> "M0"
               [] n = 24 -> "M24"
               [] n = 25 -> "M25"
               [] n = 84 -> "M84"
               [] n = 114 -> "M114"
               [] n = 115 -> "M115"
               [] n = 119 -> "M119"
               [] n = 220 -> "M220"
               [] n = 410 -> "M410"
               [] n = 503 -> "M503"
               [] n = 999 -> "M999"
               [] OTHER -> "UNKNOWN")
      [] OTHER -> "UNKNOWN"

\* The record returned by GCodeParser::parse.  The union is not
\* initialised by the constructor, so home_all keeps whatever the stack
\* held (line.junk) when the line names an axis.
parse(line) ==
    LET t == CmdType(line)
        xyz == t \in {"G0", "G1", "G92"}
        hx == has_axis_param(line, "X")
        hy == has_axis_param(line, "Y")
        hz == has_axis_param(line, "Z")
    IN [type |-> t,
        has_x |-> xyz /\ extract_float_param(line, "X"),
        x_val |-> IF xyz THEN ParamVal(line, "X") ELSE 0,
        has_y |-> xyz /\ extract_float_param(line, "Y"),
        y_val |-> IF xyz THEN ParamVal(line, "Y") ELSE 0,
        has_z |-> xyz /\ extract_float_param(line, "Z"),
        z_val |-> IF xyz THEN ParamVal(line, "Z") ELSE 0,
        has_f |-> t \in {"G0", "G1"} /\ extract_float_param(line, "F"),
        f_val |-> IF t \in {"G0", "G1"} THEN ParamVal(line, "F") ELSE 0,
        has_s |-> t \in {"M84", "M220"} /\ extract_float_param(line, "S"),
        s_val |-> IF t \in {"M84", "M220"} THEN ParamVal(line, "S") ELSE 0,
        home_x |-> t = "G28" /\ hx,
        home_y |-> t = "G28" /\ hy,
        home_z |-> t = "G28" /\ hz,
        home_all |-> t = "G28" /\ (IF ~hx /\ ~hy /\ ~hz THEN TRUE ELSE line.junk),
        axis |-> IF t # "M999" THEN ""
                 ELSE IF hx THEN "X" ELSE IF hy THEN "Y" ELSE "Z"]

(* ------------------------------------------------------------------ *)
(* The text of a line, character by character, as parse reads it       *)
(* ------------------------------------------------------------------ *)
DigitValue ==
    "0" :> 0 @@ "1" :> 1 @@ "2" :> 2 @@ "3" :> 3 @@ "4" :> 4 @@
    "5" :> 5 @@ "6" :> 6 @@ "7" :> 7 @@ "8" :> 8 @@ "9" :> 9

isdigit(c) == c \in DOMAIN DigitValue

isspace(c) == c \in {" ", "\t"}

toupper(c) ==
    CASE c = "g" -> "G"
      [] c = "m" -> "M"
      [] c = "x" -> "X"
      [] c = "y" -> "Y"
      [] c = "z" -> "Z"
      [] c = "f" -> "F"
      [] c = "s" -> "S"
      [] OTHER -> c

\* number of leading characters of t that are in set
strspn(t, set) ==
    IF \A i \in 1..Len(t) : t[i] \in set THEN Len(t)
    ELSE (CHOOSE i \in 1..Len(t) :
              t[i] \notin set /\ \A j \in 1..(i - 1) : t[j] \in set) - 1

\* index of the first c in t, 0 when there is none
strchr(t, c) ==
    IF \A i \in 1..Len(t) : t[i] # c THEN 0
    ELSE CHOOSE i \in 1..Len(t) : t[i] = c /\ \A j \in 1..(i - 1) : t[j] # c

\* *comment_ptr = 0: the text before the first semicolon
StripComment(t) ==
    IF strchr(t, ";") = 0 THEN t ELSE SubSeq(t, 1, strchr(t, ";") - 1)

SkipWhile(t, skipped) == SubSeq(t, strspn(t, skipped) + 1, Len(t))

\* the values of the leading digits
DigitRun(t) ==
    [i \in 1..strspn(t, DOMAIN DigitValue) |-> DigitValue[t[i]]]

\* atoi / atof on whole numbers: blanks, an optional sign, digits; the
\* digits of a negative number are negated
SignedDigits(t) ==
    LET u == SkipWhile(t, {" ", "\t"}) IN
    IF u # <<>> /\ Head(u) = "-"
    THEN [i \in 1..Len(DigitRun(Tail(u))) |-> -DigitRun(Tail(u))[i]]
    ELSE IF u # <<>> /\ Head(u) = "+" THEN DigitRun(Tail(u))
    ELSE DigitRun(u)

\* extract_float_param on the text: <<>> when the letter stands without a
\* number, <<value>> otherwise
TextParam(t, c) ==
    LET rest == SkipWhile(SubSeq(t, strchr(t, c) + 1, Len(t)), {" ", "\t", "="})
    IN IF rest # <<>> /\ (\/ isdigit(Head(rest))
                          \/ (Head(rest) = "-" /\ Len(rest) >= 2
                                  /\ isdigit(rest[2])))
       THEN <<Atoi(SignedDigits(rest))>>
       ELSE <<>>

ParamLetters == {"X", "Y", "Z", "F", "S"}

\* the cleaned text as parse sees it: first character, command number,
\* parameter letters
Scan(raw_line) ==
    LET stripped == StripComment(raw_line)
        read_ptr == SkipWhile(stripped, {" ", "\t"})
        line == [i \in 1..Len(read_ptr) |-> toupper(read_ptr[i])]
    IN IF line = <<>> THEN Line("", <<>>, NoArgs)
       ELSE Line(Head(line), SignedDigits(Tail(line)),
                 [c \in {l \in ParamLetters : strchr(line, l) # 0} |->
                     TextParam(line, c)])

(* ------------------------------------------------------------------ *)
(* Responses                                                           *)
(* ------------------------------------------------------------------ *)
\* one line written to the host: kind, error code, text, numbers printed,
\* and the input line it answers (0: none)
Ok(id) == [k |-> "ok", c |-> 0, m |-> "", v |-> <<>>, line |-> id]
Err(code, msg, id) ==
    [k |-> "error", c |-> code, m |-> msg, v |-> <<>>, line |-> id]
Info(msg, id) == [k |-> "info", c |-> 0, m |-> msg, v |-> <<>>, line |-> id]
Data(msg, id) == [k |-> "data", c |-> 0, m |-> msg, v |-> <<>>, line |-> id]
\* sendPosition
PositionLine(p, id) ==
    [k |-> "data", c |-> 0, m |-> "X: Y: Z:", v |-> <<p.X, p.Y, p.Z>>,
     line |-> id]

(* ------------------------------------------------------------------ *)
(* State                                                               *)
(* ------------------------------------------------------------------ *)
VARIABLES
    pc,                 \* position of the dispatcher inside one pass of loop()
    rx,                 \* complete lines waiting in the serial receive buffer
    sent,               \* the lines the host has sent; a line's index is its id
    gcodeBuffer,        \* RingBuffer: buffer, head, tail, count
    pushed,             \* number of records ever pushed (tags the records)
    fifo,               \* tags of the records pushed and not yet popped, oldest first
    current_position_mm,
    steps,              \* AccelStepper currentPosition of the three channels
    homed,              \* Homing::_is_homed_x/y/z
    absolute_mode,
    speed_factor,
    steppers_disabled,  \* StepperControl::_steppers_are_disabled
    stepper_disable_timeout_ms,
    sd_exec_state,
    sd_file,            \* lines of the open file that are still unread
    ui,                 \* operator-panel events so far
    out,                \* every line written to the host, in order
    last,               \* the command executed last: state before and after it
    endstops,           \* Endstops: pins, debounce state, millis()
    uart,               \* bytes received and not yet read, _serial_line
    calc,               \* argument and result of the conversion applied last
    motion              \* the blocking motion routine in flight, loop by loop

vars == <<motion, calc, uart, endstops, pc, rx, sent, gcodeBuffer, pushed, fifo, current_position_mm, steps,
          homed, absolute_mode, speed_factor, steppers_disabled,
          stepper_disable_timeout_ms, sd_exec_state, sd_file, ui, out, last>>

\* no blocking routine has run yet; StepperControl::init has seated the
\* configured maximum speeds
NoMotion ==
    [phase |-> "idle", axis |-> "X", togo |-> 0, budget |-> 0, elapsed |-> 0,
     timeout_ms |-> 0, pre_triggered |-> FALSE, trail |-> <<>>,
     result |-> "none", errors |-> 0, moved |-> 0, moved_in |-> "idle",
     started |-> 0,
     dist |-> [a \in Axes |-> 0],
     maxSpeed |-> [a \in Axes |-> MmPerMin(MaxVelocity(a))]]

\* no conversion applied yet
NoCalc == [op |-> "none"]

EmptyLine == Line("", <<>>, NoArgs)

Entry(cmd, id, tag) == [cmd |-> cmd, line |-> id, tag |-> tag]

NoHoming == [a \in Axes |-> "none"]

NoCommand ==
    [line |-> 0, tag |-> 0, cmd |-> parse(EmptyLine),
     prePos |-> [a \in Axes |-> 0], preSteps |-> [a \in Axes |-> 0],
     preHomed |-> [a \in Axes |-> FALSE], preAbs |-> TRUE,
     postPos |-> [a \in Axes |-> 0], postSteps |-> [a \in Axes |-> 0],
     postHomed |-> [a \in Axes |-> FALSE], postAbs |-> TRUE,
     preCount |-> 0, pulsed |-> FALSE, emitted |-> <<>>,
     homing |-> NoHoming, hit |-> "none"]

\* level at which an endstop pin reads triggered
Inverting(a) ==
    CASE a = "X" -> ENDSTOP_X_MIN_INVERTING
      [] a = "Y" -> ENDSTOP_Y_MIN_INVERTING
      [] OTHER -> ENDSTOP_Z_MIN_INVERTING

\* Endstops::getPinTriggeredState
getPinTriggeredState(a, level) ==
    LET raw_read_low == (level = "LOW")
    IN IF Inverting(a) THEN raw_read_low ELSE ~raw_read_low

RestLevel(a) == IF Inverting(a) THEN "HIGH" ELSE "LOW"

\* the Endstops object as constructed, before Endstops::init; held is the
\* time the watched pin has been triggered without interruption
EndstopsConstructed ==
    [phase |-> "constructed", probe |-> "X", now |-> 0,
     pin |-> [a \in Axes |-> RestLevel(a)], held |-> 0,
     last_stable_raw_state |-> [a \in Axes |-> FALSE],
     last_debounce_time |-> [a \in Axes |-> 0],
     debounced_triggered_state |-> [a \in Axes |-> FALSE],
     returned |-> FALSE, promoted |-> FALSE,
     jog |-> "none", lastSpeedUpdate |-> 0, rawDuring |-> FALSE,
     endstop_triggered |-> FALSE]

DefaultTimeoutMs ==
    IF DISABLE_STEPPERS_AFTER_IDLE_S > 0
    THEN DISABLE_STEPPERS_AFTER_IDLE_S * 1000 ELSE 0

Init ==
    /\ pc = "serial"
    /\ rx = <<>>
    /\ sent = <<>>
    /\ gcodeBuffer = [buffer |-> [i \in 0..(GCODE_BUFFER_SIZE - 1) |->
                                     Entry(parse(EmptyLine), 0, 0)],
                      head |-> 0, tail |-> 0, count |-> 0]
    /\ pushed = 0
    /\ fifo = <<>>
    /\ current_position_mm = [a \in Axes |-> 0]
    /\ steps = [a \in Axes |-> 0]
    /\ homed = [a \in Axes |-> FALSE]
    /\ absolute_mode = TRUE
    /\ speed_factor = 100
    /\ steppers_disabled = TRUE
    /\ stepper_disable_timeout_ms = DefaultTimeoutMs
    /\ sd_exec_state = "IDLE"
    /\ sd_file = <<>>
    /\ ui = 0
    /\ out = <<>>
    /\ last = NoCommand
    /\ endstops = EndstopsConstructed
    /\ uart = [bytes |-> <<>>, serial_line |-> <<>>, lines |-> 0, chunks |-> 0,
               high |-> 0, handed |-> 0]
    /\ calc = NoCalc
    /\ motion = NoMotion

(* ------------------------------------------------------------------ *)
(* RingBuffer<ParsedGCodeCommand, GCODE_BUFFER_SIZE>                   *)
(* ------------------------------------------------------------------ *)
\* A faulty fullness test that is late by one record.
isFullLate(q) == q.count > GCODE_BUFFER_SIZE

isFull(q) == q.count >= GCODE_BUFFER_SIZE

isEmpty(q) == q.count = 0

push(q, item) ==
    IF q.count >= GCODE_BUFFER_SIZE THEN q
    ELSE [q EXCEPT !.buffer[q.tail] = item,
                   !.tail = (q.tail + 1) % GCODE_BUFFER_SIZE,
                   !.count = q.count + 1]

\* A faulty pop that forgets to advance the read index.
popStuck(q) ==
    IF q.count = 0 THEN q
    ELSE [q EXCEPT !.count = q.count - 1]

pop(q) ==
    IF q.count = 0 THEN q
    ELSE [q EXCEPT !.head = (q.head + 1) % GCODE_BUFFER_SIZE,
                   !.count = q.count - 1]

\* while (!isEmpty()) pop(dummy)
RECURSIVE drain(_)
drain(q) == IF isEmpty(q) THEN q ELSE drain(pop(q))

\* the records in the ring, oldest first
Queued(q) ==
    [i \in 1..q.count |-> q.buffer[(q.head + i - 1) % GCODE_BUFFER_SIZE]]

(* ------------------------------------------------------------------ *)
(* Serial line assembler                                               *)
(* ------------------------------------------------------------------ *)
\* A faulty producer that acknowledges the command it queues.
processIncomingLineAck(st, l) ==
    LET cmd == parse(l.text) IN
    IF cmd.type = "UNKNOWN"
    THEN [st EXCEPT !.out = st.out \o <<Err(ERR_UNKNOWN_COMMAND, "line", l.id),
                                        Ok(l.id)>>]
    ELSE IF isFull(st.q)
    THEN [st EXCEPT !.out = st.out \o
                        <<Err(ERR_BUFFER_OVERFLOW, "Command buffer full", l.id),
                          Ok(l.id)>>]
    ELSE [st EXCEPT !.q = push(st.q, Entry(cmd, l.id, st.pushed + 1)),
                    !.pushed = st.pushed + 1,
                    !.fifo = Append(st.fifo, st.pushed + 1),
                    !.out = Append(st.out, Ok(l.id))]

\* SerialHandler::processIncomingLine on the producer's part of the state
processIncomingLine(st, l) ==
    LET cmd == parse(l.text) IN
    IF cmd.type = "UNKNOWN"
    THEN [st EXCEPT !.out = st.out \o <<Err(ERR_UNKNOWN_COMMAND, "line", l.id),
                                        Ok(l.id)>>]
    ELSE IF isFull(st.q)
    THEN [st EXCEPT !.out = st.out \o
                        <<Err(ERR_BUFFER_OVERFLOW, "Command buffer full", l.id),
                          Ok(l.id)>>]
    ELSE [st EXCEPT !.q = push(st.q, Entry(cmd, l.id, st.pushed + 1)),
                    !.pushed = st.pushed + 1,
                    !.fifo = Append(st.fifo, st.pushed + 1)]

\* the loop of handleSerialInput over the lines that have arrived
RECURSIVE handleLines(_, _)
handleLines(st, ls) ==
    IF ls = <<>> THEN st
    ELSE handleLines(IF Head(ls).text.letter # ""
                     THEN processIncomingLine(st, Head(ls)) ELSE st,
                     Tail(ls))

handleSerialInput ==
    /\ pc = "serial"
    /\ LET st == handleLines([q |-> gcodeBuffer, out |-> out,
                              pushed |-> pushed, fifo |-> fifo], rx)
       IN /\ gcodeBuffer' = st.q
          /\ out' = st.out
          /\ pushed' = st.pushed
          /\ fifo' = st.fifo
    /\ rx' = <<>>
    /\ pc' = "pot"
    /\ UNCHANGED <<motion, calc, uart, endstops, sent, current_position_mm, steps, homed,
                   absolute_mode, speed_factor, steppers_disabled,
                   stepper_disable_timeout_ms, sd_exec_state, sd_file, ui,
                   last>>

\* A store test that lets one character too many in.
HasRoomOffByOne(idx) == idx <= GCODE_MAX_LENGTH

\* "Store character if there's space": _line_idx < GCODE_MAX_LENGTH
HasRoom(idx) == idx < GCODE_MAX_LENGTH

Max(a, b) == IF a > b THEN a ELSE b

\* one turn of the loop of handleSerialInput: a character is read; high is
\* the highest index of _serial_line written so far, handed the length of
\* the last line given to processIncomingLine
readSerialByte ==
    /\ pc = "serial"
    /\ uart.bytes # <<>>
    /\ LET inChar == Head(uart.bytes)
           id == uart.lines + 1
           st == [q |-> gcodeBuffer, out |-> out, pushed |-> pushed,
                  fifo |-> fifo]
           done == IF inChar \in {"\n", "\r"} /\ Len(uart.serial_line) > 0
                   THEN processIncomingLine(
                            st, [text |-> Scan(uart.serial_line), id |-> id])
                   ELSE IF inChar \notin {"\n", "\r"}
                           /\ ~HasRoom(Len(uart.serial_line))
                   THEN [st EXCEPT !.out = Append(out,
                                               Err(ERR_BUFFER_OVERFLOW,
                                                   "Incoming line too long",
                                                   id))]
                   ELSE st
       IN /\ gcodeBuffer' = done.q
          /\ out' = done.out
          /\ pushed' = done.pushed
          /\ fifo' = done.fifo
          /\ uart' = [uart EXCEPT
                         !.bytes = Tail(uart.bytes),
                         !.serial_line =
                             IF inChar \in {"\n", "\r"} THEN <<>>
                             ELSE IF HasRoom(Len(uart.serial_line))
                             THEN Append(uart.serial_line, inChar)
                             ELSE <<>>,
                         !.high =
                             IF inChar \in {"\n", "\r"}
                                \/ HasRoom(Len(uart.serial_line))
                             THEN Max(uart.high, Len(uart.serial_line))
                             ELSE uart.high,
                         !.handed =
                             IF inChar \in {"\n", "\r"}
                                /\ Len(uart.serial_line) > 0
                             THEN Len(uart.serial_line)
                             ELSE uart.handed,
                         !.lines = IF inChar \in {"\n", "\r"}
                                   THEN uart.lines + 1 ELSE uart.lines]
    /\ UNCHANGED <<motion, calc, endstops, pc, rx, sent, current_position_mm, steps, homed,
                   absolute_mode, speed_factor, steppers_disabled,
                   stepper_disable_timeout_ms, sd_exec_state, sd_file, ui,
                   last>>

\* Serial.available() is 0: handleSerialInput returns
serialDrained ==
    /\ pc = "serial"
    /\ uart.bytes = <<>>
    /\ pc' = "pot"
    /\ UNCHANGED <<motion, calc, uart, endstops, rx, sent, gcodeBuffer, pushed, fifo,
                   current_position_mm, steps, homed, absolute_mode,
                   speed_factor, steppers_disabled, stepper_disable_timeout_ms,
                   sd_exec_state, sd_file, ui, out, last>>

(* ------------------------------------------------------------------ *)
(* The host.  A line that arrives while the loop is busy waits in the  *)
(* receive buffer until the next handleSerialInput, so arrivals are    *)
(* taken at the top of the loop only.                                  *)
(* ------------------------------------------------------------------ *)
Arg1(l, v) == l :> <<v>>

Move(args) == Line("G", <<0>>, args)

\* one line for every handler, an unknown command, an empty line, and
\* the texts MOVE and G X10
HostLines ==
    { Scan(<<"M", "O", "V", "E">>),
      Scan(<<"G", " ", "X", "1", "0">>),
      Line("G", <<9, 1>>, NoArgs),
      Move(Arg1("X", 5) @@ Arg1("F", 5000)),
      Line("G", <<2, 8>>, "X" :> <<>>),
      Line("G", <<9, 2>>, Arg1("X", 100) @@ Arg1("Z", 1)),
      Line("M", <<0>>, NoArgs),
      Line("M", <<4, 1, 0>>, NoArgs),
      Line("M", <<1, 1, 4>>, NoArgs),
      Line("M", <<1, 1, 5>>, NoArgs),
      Line("M", <<1, 1, 9>>, NoArgs),
      Line("M", <<2, 5>>, NoArgs),
      Line("M", <<8, 4>>, Arg1("S", 0)),
      Line("M", <<2, 2, 0>>, Arg1("S", 50)),
      Line("M", <<9, 9, 9>>, "X" :> <<>>),
      Line("T", <<1>>, NoArgs),
      EmptyLine }

MoveLines ==
    { Line("G", <<9, 0>>, NoArgs),
      Line("G", <<9, 1>>, NoArgs),
      Move(Arg1("X", 10) @@ Arg1("Y", 10) @@ Arg1("F", 3000)),
      Move(Arg1("X", 5) @@ Arg1("F", 5000)),
      Move(Arg1("X", 2000) @@ Arg1("F", 5000)),
      Move(Arg1("Y", 300)),
      Line("G", <<2, 8>>, NoArgs),
      Line("M", <<1, 1, 4>>, NoArgs) }

\* the last line is G28 X parsed while the bytes of the union that hold
\* home_all are not zero
HomeLines ==
    { Line("G", <<2, 8>>, NoArgs),
      Line("G", <<2, 8>>, "X" :> <<>>),
      [Line("G", <<2, 8>>, "X" :> <<>>) EXCEPT !.junk = TRUE],
      Line("G", <<2, 8>>, "Z" :> <<>>),
      Line("G", <<9, 2>>, Arg1("X", 100) @@ Arg1("Z", 1)) }

PanelLines ==
    { Line("G", <<9, 1>>, NoArgs),
      Move(Arg1("X", 5) @@ Arg1("F", 5000)),
      Line("M", <<1, 1, 4>>, NoArgs) }

FloodLines == { Move(Arg1("X", 1)) }

JogLines ==
    { Line("G", <<2, 8>>, NoArgs),
      Line("G", <<2, 8>>, "X" :> <<>>),
      Line("G", <<9, 1>>, NoArgs),
      Move(Arg1("X", 300) @@ Arg1("F", 5000)),
      Move(Arg1("X", -300) @@ Arg1("F", 5000)) }

\* relative jogs on every axis, toward and away from the endstops
AbortLines ==
    { Line("G", <<9, 1>>, NoArgs),
      Move(Arg1("X", 6) @@ Arg1("Y", -4) @@ Arg1("F", 5000)),
      Move(Arg1("Z", -4)),
      Move(Arg1("X", -2) @@ Arg1("Z", 4)) }

\* M84 in its three forms, M84 with a negative S, and a relative move
\* that enables the steppers again
IdleLines ==
    { Line("G", <<9, 1>>, NoArgs),
      Move(Arg1("X", 5)),
      Line("M", <<8, 4>>, NoArgs),
      Line("M", <<8, 4>>, Arg1("S", 0)),
      Line("M", <<8, 4>>, Arg1("S", 5)),
      Line("M", <<8, 4>>, Arg1("S", -5)) }

HostSendFrom(alphabet, max) ==
    /\ pc = "serial"
    /\ Len(sent) < max
    /\ \E l \in alphabet :
          /\ rx' = Append(rx, [text |-> l, id |-> Len(sent) + 1])
          /\ sent' = Append(sent, l)
    /\ UNCHANGED <<motion, calc, uart, endstops, pc, gcodeBuffer, pushed, fifo,
                   current_position_mm, steps, homed, absolute_mode,
                   speed_factor, steppers_disabled, stepper_disable_timeout_ms,
                   sd_exec_state, sd_file, ui, out, last>>

HostSend == HostSendFrom(HostLines, MaxLines)

HostMove == HostSendFrom(MoveLines, MaxMoveLines)

HostHome == HostSendFrom(HomeLines, MaxHomeLines)

HostPanel == HostSendFrom(PanelLines, MaxPanelLines)

HostFlood == HostSendFrom(FloodLines, MaxFloodLines)

HostJog == HostSendFrom(JogLines, MaxJogLines)

HostAbort == HostSendFrom(AbortLines, MaxAbortLines)

HostIdle == HostSendFrom(IdleLines, MaxIdleLines)

\* Stop and QuickStop among relative moves
StopLines ==
    { Line("G", <<9, 1>>, NoArgs),
      Move(Arg1("Y", 1)),
      Line("M", <<0>>, NoArgs),
      Line("M", <<4, 1, 0>>, NoArgs) }

HostStop == HostSendFrom(StopLines, MaxStopLines)

\* Resume and Pause
ControlLines ==
    { Line("M", <<2, 4>>, NoArgs),
      Line("M", <<2, 5>>, NoArgs) }

ControlsSent == Len(SelectSeq(sent, LAMBDA l : l \in ControlLines))

HostControl ==
    /\ ControlsSent < MaxControls
    /\ HostSendFrom(ControlLines, MaxControls + GCODE_BUFFER_SIZE)

\* the host sends as many moves as the queue holds between two passes
HostBurst ==
    /\ pc = "serial"
    /\ sent = <<>>
    /\ LET burst == [i \in 1..GCODE_BUFFER_SIZE |-> Move(Arg1("Y", 1))]
       IN /\ rx' = rx \o [i \in 1..GCODE_BUFFER_SIZE |->
                             [text |-> burst[i], id |-> Len(sent) + i]]
          /\ sent' = sent \o burst
    /\ UNCHANGED <<motion, calc, uart, endstops, pc, gcodeBuffer, pushed, fifo,
                   current_position_mm, steps, homed, absolute_mode,
                   speed_factor, steppers_disabled, stepper_disable_timeout_ms,
                   sd_exec_state, sd_file, ui, out, last>>

Pad(n, c) == [i \in 1..n |-> c]

\* pieces of text the host puts on the wire
Chunks ==
    { <<"G", "2", "8">>, Pad(32, ";"), <<";">>, <<"\n">> }

HostBytes ==
    /\ pc = "serial"
    /\ uart.chunks < MaxChunks
    /\ \E chunk \in Chunks :
          uart' = [uart EXCEPT !.bytes = uart.bytes \o chunk,
                               !.chunks = uart.chunks + 1]
    /\ UNCHANGED <<motion, calc, endstops, pc, rx, sent, gcodeBuffer, pushed, fifo,
                   current_position_mm, steps, homed, absolute_mode,
                   speed_factor, steppers_disabled, stepper_disable_timeout_ms,
                   sd_exec_state, sd_file, ui, out, last>>

(* ------------------------------------------------------------------ *)
(* Endstops.  One pin is watched; time advances in milliseconds and    *)
(* the pin may change level at every millisecond.                      *)
(* ------------------------------------------------------------------ *)
Levels == {"LOW", "HIGH"}

FirmwareIdle ==
    UNCHANGED <<uart, pc, rx, sent, gcodeBuffer, pushed, fifo, current_position_mm,
                steps, homed, absolute_mode, speed_factor, steppers_disabled,
                stepper_disable_timeout_ms, sd_exec_state, sd_file, ui, out,
                last>>

\* Endstops::init: the debounce state starts from the pin readings; a pin
\* that reads triggered at start-up has been so for longer than the window
endstopsInit ==
    /\ endstops.phase = "constructed"
    /\ \E a \in Axes, level \in Levels :
          LET pin == [endstops.pin EXCEPT ![a] = level]
              raw == [b \in Axes |-> getPinTriggeredState(b, pin[b])]
          IN endstops' = [endstops EXCEPT
                             !.phase = "ready",
                             !.probe = a,
                             !.pin = pin,
                             !.held = IF raw[a] THEN ENDSTOP_DEBOUNCE_MS + 1
                                      ELSE 0,
                             !.last_stable_raw_state = raw,
                             !.debounced_triggered_state = raw]
    /\ UNCHANGED <<motion, calc>>
    /\ FirmwareIdle

\* runBlockingWithCheck: the stop callback is due 5 ms after the last one;
\* the loop turns many times per millisecond, so it runs before the clock
\* moves on
CheckDue(es) ==
    es.jog = "running" /\ es.now - es.lastSpeedUpdate >= 5

\* one millisecond passes; the watched pin keeps or changes its level
millisTick ==
    /\ endstops.phase = "ready"
    /\ endstops.now < MaxMillis
    /\ ~CheckDue(endstops)
    /\ \E level \in Levels :
          LET a == endstops.probe
              was == getPinTriggeredState(a, endstops.pin[a])
              is == getPinTriggeredState(a, level)
          IN endstops' = [endstops EXCEPT
                             !.now = endstops.now + 1,
                             !.pin[a] = level,
                             !.held = IF is /\ was
                                      THEN (IF endstops.held > ENDSTOP_DEBOUNCE_MS
                                            THEN endstops.held
                                            ELSE endstops.held + 1)
                                      ELSE 0,
                             !.rawDuring = endstops.rawDuring
                                           \/ (endstops.jog = "running" /\ is),
                             !.promoted = FALSE]
    /\ UNCHANGED <<motion, calc>>
    /\ FirmwareIdle

\* Endstops::isTriggered(axis) at time es.now
isTriggered(es, a) ==
    LET current_raw_triggered_state == getPinTriggeredState(a, es.pin[a])
        changed == current_raw_triggered_state # es.last_stable_raw_state[a]
        time == IF changed THEN es.now ELSE es.last_debounce_time[a]
        stable == (es.now - time) > ENDSTOP_DEBOUNCE_MS
        debounced == IF stable THEN current_raw_triggered_state
                     ELSE es.debounced_triggered_state[a]
    IN [es EXCEPT !.last_debounce_time[a] = time,
                  !.last_stable_raw_state[a] = current_raw_triggered_state,
                  !.debounced_triggered_state[a] = debounced,
                  !.returned = debounced,
                  !.promoted = debounced /\ ~es.debounced_triggered_state[a]]

\* somebody asks for the watched endstop (homing, M119); a blocking move
\* lets nobody else ask
endstopQuery ==
    /\ endstops.phase = "ready"
    /\ endstops.jog # "running"
    /\ endstops' = isTriggered(endstops, endstops.probe)
    /\ UNCHANGED <<motion, calc>>
    /\ FirmwareIdle

\* a relative move toward the watched endstop enters runBlockingWithCheck
\* with jogEndstopCheck armed for that axis
jogBegin ==
    /\ endstops.phase = "ready"
    /\ endstops.jog = "none"
    /\ LET a == endstops.probe
       IN endstops' = [endstops EXCEPT
                          !.jog = "running",
                          !.lastSpeedUpdate = endstops.now,
                          !.rawDuring = getPinTriggeredState(a, endstops.pin[a]),
                          !.promoted = FALSE]
    /\ UNCHANGED <<motion, calc>>
    /\ FirmwareIdle

\* the 5 ms stop check of runBlockingWithCheck: jogEndstopCheck asks the
\* endstop; on true the channels are frozen and the move handler asks the
\* endstop again to name the axis it will re-home
jogCheck ==
    /\ endstops.phase = "ready"
    /\ CheckDue(endstops)
    /\ LET a == endstops.probe
           asked == isTriggered(endstops, a)
           again == isTriggered(asked, a)
       IN endstops' =
             IF asked.returned
             THEN [again EXCEPT !.jog = "stopped",
                                !.endstop_triggered = again.returned]
             ELSE [asked EXCEPT !.lastSpeedUpdate = endstops.now]
    /\ UNCHANGED <<motion, calc>>
    /\ FirmwareIdle

\* every channel reached its target: the move ran to its end
jogArrive ==
    /\ endstops.phase = "ready"
    /\ endstops.jog = "running"
    /\ ~CheckDue(endstops)
    /\ endstops' = [endstops EXCEPT !.jog = "complete", !.promoted = FALSE]
    /\ UNCHANGED <<motion, calc>>
    /\ FirmwareIdle

(* ------------------------------------------------------------------ *)
(* Homing coordinator.  What the endstop does during the four phases   *)
(* is the environment's choice: the sequence succeeds or fails.  The   *)
(* diagnostic lines of one axis are written as one info line.          *)
(* ------------------------------------------------------------------ *)
HomingOutcomes == {"ok", "fail"}

Diagnostics(a, id) == <<Info("Homing axis", id)>>

\* Homing::homeAxis on [steps, homed, disabled, em, res]; id is the line
\* the output belongs to
homeAxis(h, a, outcome, id) ==
    IF outcome = "ok"
    THEN [h EXCEPT
            !.homed = [h.homed EXCEPT ![a] = TRUE],
            !.steps = [h.steps EXCEPT
                          ![a] = IF a = "Z"
                                 THEN MmToStepsAxis("Z", Z_HOME_POSITION)
                                 ELSE 0],
            \* _singleAxisHomingSequence leaves the drivers disabled; the
            \* park move of Z enables them again
            !.disabled = (a # "Z"),
            !.pulsed = TRUE,
            !.em = h.em \o Diagnostics(a, id) \o
                   (IF a = "Z"
                    THEN <<Info("Z moved to home position", id)>>
                    ELSE <<>>),
            !.res = [h.res EXCEPT ![a] = "ok"]]
    ELSE [h EXCEPT
            !.steps = [h.steps EXCEPT ![a] = 0],
            !.disabled = TRUE,
            !.pulsed = TRUE,
            !.em = h.em \o Diagnostics(a, id) \o
                   <<Err(ERR_HOMING_FAILED, "Homing failed for axis", id)>>,
            !.res = [h.res EXCEPT ![a] = "fail"]]

SetHomed(h, a, v) == [h EXCEPT !.homed = [h.homed EXCEPT ![a] = v]]

\* the line homeAllAxes writes before it homes an axis
Announce(h, a, id) ==
    [h EXCEPT !.em = h.em \o <<Info("Homing " \o a \o " axis...", id)>>]

PreHomingCheck(h, id) ==
    [h EXCEPT !.em = h.em \o <<Info("Pre-homing endstop check:", id),
                                Data("x_min", id), Data("y_min", id),
                                Data("z_min", id)>>]

\* Faulty: the axes after a failed one are not attempted.
homeAllAxesUntilFailure(h, oz, ox, oy, id) ==
    LET h0 == PreHomingCheck(h, id)
        h1 == SetHomed(homeAxis(Announce(h0, "Z", id), "Z", oz, id),
                       "Z", oz = "ok")
        h2 == IF oz = "ok"
              THEN SetHomed(homeAxis(Announce(h1, "X", id), "X", ox, id),
                            "X", ox = "ok")
              ELSE h1
        h3 == IF oz = "ok" /\ ox = "ok"
              THEN SetHomed(homeAxis(Announce(h2, "Y", id), "Y", oy, id),
                            "Y", oy = "ok")
              ELSE h2
        h4 == [h3 EXCEPT !.em = h3.em \o <<Info("Homing result", id)>>]
    IN IF ox = "ok" /\ oy = "ok" /\ oz = "ok"
       THEN [h4 EXCEPT
               !.steps = [X |-> 0, Y |-> 0,
                          Z |-> MmToStepsAxis("Z", Z_HOME_POSITION)],
               !.pulsed = TRUE,
               !.disabled = FALSE,
               !.em = h4.em \o <<Info("All axes homed.", id)>>]
       ELSE [h4 EXCEPT
               !.em = h4.em \o <<Err(ERR_HOMING_FAILED, "Homing result", id)>>]

\* Homing::homeAllAxes: Z, then X, then Y
homeAllAxes(h, oz, ox, oy, id) ==
    LET h0 == PreHomingCheck(h, id)
        h1 == SetHomed(homeAxis(Announce(h0, "Z", id), "Z", oz, id),
                       "Z", oz = "ok")
        h2 == SetHomed(homeAxis(Announce(h1, "X", id), "X", ox, id),
                       "X", ox = "ok")
        h3 == SetHomed(homeAxis(Announce(h2, "Y", id), "Y", oy, id),
                       "Y", oy = "ok")
        h4 == [h3 EXCEPT !.em = h3.em \o <<Info("Homing result", id)>>]
    IN IF ox = "ok" /\ oy = "ok" /\ oz = "ok"
       THEN [h4 EXCEPT
               !.steps = [X |-> 0, Y |-> 0,
                          Z |-> MmToStepsAxis("Z", Z_HOME_POSITION)],
               !.pulsed = TRUE,
               !.disabled = FALSE,
               !.em = h4.em \o <<Info("All axes homed.", id)>>]
       ELSE [h4 EXCEPT
               !.em = h4.em \o <<Err(ERR_HOMING_FAILED, "Homing result", id)>>]

HomingState ==
    [steps |-> steps, homed |-> homed, disabled |-> steppers_disabled,
     pulsed |-> FALSE, em |-> <<>>, res |-> NoHoming]

\* Faulty: every axis seated at its maximum, whatever its home direction.
HomeEndpointMax(a) == MaxPos(a)

\* logical coordinate of a homed axis by the home-direction rule
\* A reseating that measures from the position held before.
HomeEndpointFromCurrent(a) == MaxPos(a) - current_position_mm[a]

HomeEndpoint(a) == IF HomeDir(a) = 1 THEN MaxPos(a) ELSE 0

(* ------------------------------------------------------------------ *)
(* The passes of loop() before the dispatch                            *)
(* ------------------------------------------------------------------ *)
PotPercents == {50}

\* potentiometer.update() while the knob rests: hasChanged() is false
potentiometerUpdate ==
    /\ pc = "pot"
    /\ pc' = "lcd"
    /\ UNCHANGED <<motion, calc, uart, endstops, rx, sent, gcodeBuffer, pushed, fifo, current_position_mm,
                   steps, homed, absolute_mode, speed_factor,
                   steppers_disabled, stepper_disable_timeout_ms,
                   sd_exec_state, sd_file, ui, out, last>>

\* the knob was turned: speed_factor = getSpeedPercent()
potentiometerTurned ==
    /\ pc = "pot"
    /\ ui < MaxUiEvents
    /\ \E p \in PotPercents : speed_factor' = p
    /\ ui' = ui + 1
    /\ pc' = "lcd"
    /\ UNCHANGED <<motion, calc, uart, endstops, rx, sent, gcodeBuffer, pushed, fifo, current_position_mm,
                   steps, homed, absolute_mode, steppers_disabled,
                   stepper_disable_timeout_ms, sd_exec_state, sd_file, out,
                   last>>

SdFile == << Move(Arg1("X", 1)), Line("M", <<4, 1, 0>>, NoArgs) >>

\* lcdMenu.update() with no button event
lcdIdle ==
    /\ pc = "lcd"
    /\ pc' = "idle"
    /\ UNCHANGED <<motion, calc, uart, endstops, rx, sent, gcodeBuffer, pushed, fifo, current_position_mm,
                   steps, homed, absolute_mode, speed_factor,
                   steppers_disabled, stepper_disable_timeout_ms,
                   sd_exec_state, sd_file, ui, out, last>>

\* HomeAxisScreen::onButtonClick: the homing runs from the menu, the
\* logical position and the step counters are not resynchronised
lcdHome ==
    /\ pc = "lcd"
    /\ ui < MaxUiEvents
    /\ \E item \in {"X", "Y", "Z", "All"}, oz, ox, oy \in HomingOutcomes :
          LET h == IF item = "All"
                   THEN homeAllAxes(HomingState, oz, ox, oy, 0)
                   ELSE homeAxis(HomingState, item,
                                 CASE item = "X" -> ox
                                   [] item = "Y" -> oy
                                   [] OTHER -> oz, 0)
          IN /\ steps' = h.steps
             /\ homed' = h.homed
             /\ steppers_disabled' = h.disabled
             /\ out' = out \o h.em
    /\ ui' = ui + 1
    /\ pc' = "idle"
    /\ UNCHANGED <<motion, calc, uart, endstops, rx, sent, gcodeBuffer, pushed, fifo, current_position_mm,
                   absolute_mode, speed_factor, stepper_disable_timeout_ms,
                   sd_exec_state, sd_file, last>>

\* PenSettingsScreen::onButtonClick, item "Test pen": Z runs to pen_down_z
\* and back to pen_up_z; the logical position is not told
lcdPenTest ==
    /\ pc = "lcd"
    /\ ui < MaxUiEvents
    /\ steps' = [steps EXCEPT !.Z = MmToStepsAxis("Z", PEN_UP_Z)]
    /\ steppers_disabled' = FALSE
    /\ ui' = ui + 1
    /\ pc' = "idle"
    /\ UNCHANGED <<motion, calc, uart, endstops, rx, sent, gcodeBuffer, pushed, fifo,
                   current_position_mm, homed, absolute_mode, speed_factor,
                   stepper_disable_timeout_ms, sd_exec_state, sd_file, out,
                   last>>

\* SDScreen::onButtonClick: start the file, pause, resume, leave
lcdSdClick ==
    /\ pc = "lcd"
    /\ ui < MaxUiEvents
    /\ sd_exec_state' = CASE sd_exec_state = "RUNNING" -> "PAUSED"
                          [] sd_exec_state = "PAUSED" -> "RUNNING"
                          [] sd_exec_state = "DONE" -> "IDLE"
                          [] OTHER -> "RUNNING"
    /\ sd_file' = CASE sd_exec_state = "IDLE" -> SdFile
                    [] sd_exec_state = "DONE" -> <<>>
                    [] OTHER -> sd_file
    /\ ui' = ui + 1
    /\ pc' = "idle"
    /\ UNCHANGED <<motion, calc, uart, endstops, rx, sent, gcodeBuffer, pushed, fifo, current_position_mm,
                   steps, homed, absolute_mode, speed_factor,
                   steppers_disabled, stepper_disable_timeout_ms, out, last>>

\* LCDMenu::update, BUTTON_LONG_PRESS_START: cancel the file
lcdLongPress ==
    /\ pc = "lcd"
    /\ ui < MaxUiEvents
    /\ IF sd_exec_state \in {"RUNNING", "PAUSED"}
       THEN sd_exec_state' = "IDLE" /\ sd_file' = <<>>
       ELSE UNCHANGED <<sd_exec_state, sd_file>>
    /\ ui' = ui + 1
    /\ pc' = "idle"
    /\ UNCHANGED <<motion, calc, uart, endstops, rx, sent, gcodeBuffer, pushed, fifo, current_position_mm,
                   steps, homed, absolute_mode, speed_factor,
                   steppers_disabled, stepper_disable_timeout_ms, out, last>>

\* stepper idle timeout; whether the last activity is stale is the clock's
\* Faulty: the timeout is not looked at.
idleCheckAnyTimeout ==
    /\ pc = "idle"
    /\ \E stale \in BOOLEAN :
          IF stale /\ ~steppers_disabled
          THEN /\ steppers_disabled' = TRUE
               /\ out' = Append(out, Info("Steppers auto-disabled", 0))
          ELSE UNCHANGED <<steppers_disabled, out>>
    /\ pc' = "sd"
    /\ UNCHANGED <<motion, calc, uart, endstops, rx, sent, gcodeBuffer, pushed, fifo, current_position_mm,
                   steps, homed, absolute_mode, speed_factor,
                   stepper_disable_timeout_ms, sd_exec_state, sd_file, ui,
                   last>>

\* "Check for stepper timeout"; stale is what
\* millis() - last_stepper_activity_time > timeout evaluates to
idleCheck ==
    /\ pc = "idle"
    /\ \E stale \in BOOLEAN :
          IF stepper_disable_timeout_ms > 0 /\ stale /\ ~steppers_disabled
          THEN /\ steppers_disabled' = TRUE
               /\ out' = Append(out, Info("Steppers auto-disabled", 0))
          ELSE UNCHANGED <<steppers_disabled, out>>
    /\ pc' = "sd"
    /\ UNCHANGED <<motion, calc, uart, endstops, rx, sent, gcodeBuffer, pushed, fifo, current_position_mm,
                   steps, homed, absolute_mode, speed_factor,
                   stepper_disable_timeout_ms, sd_exec_state, sd_file, ui,
                   last>>

\* feed one line of the file into the queue
\* Faulty: the feeder also reads while the execution is paused.
sdFeedWhilePaused ==
    /\ pc = "sd"
    /\ IF sd_exec_state \in {"RUNNING", "PAUSED"} /\ ~isFull(gcodeBuffer)
       THEN IF sd_file # <<>>
            THEN LET sdCmd == parse(Head(sd_file)) IN
                 /\ sd_file' = Tail(sd_file)
                 /\ IF Head(sd_file).letter # "" /\ sdCmd.type # "UNKNOWN"
                    THEN /\ gcodeBuffer' = push(gcodeBuffer,
                                                Entry(sdCmd, 0, pushed + 1))
                         /\ pushed' = pushed + 1
                         /\ fifo' = Append(fifo, pushed + 1)
                    ELSE UNCHANGED <<gcodeBuffer, pushed, fifo>>
                 /\ UNCHANGED sd_exec_state
            ELSE /\ sd_exec_state' = "DONE"
                 /\ UNCHANGED <<sd_file, gcodeBuffer, pushed, fifo>>
       ELSE UNCHANGED <<sd_exec_state, sd_file, gcodeBuffer, pushed, fifo>>
    /\ pc' = "dispatch"
    /\ UNCHANGED <<motion, calc, uart, endstops, rx, sent, current_position_mm, steps, homed, absolute_mode,
                   speed_factor, steppers_disabled,
                   stepper_disable_timeout_ms, ui, out, last>>

sdFeed ==
    /\ pc = "sd"
    /\ IF sd_exec_state = "RUNNING" /\ ~isFull(gcodeBuffer)
       THEN IF sd_file # <<>>
            THEN LET sdCmd == parse(Head(sd_file)) IN
                 /\ sd_file' = Tail(sd_file)
                 /\ IF Head(sd_file).letter # "" /\ sdCmd.type # "UNKNOWN"
                    THEN /\ gcodeBuffer' = push(gcodeBuffer,
                                                Entry(sdCmd, 0, pushed + 1))
                         /\ pushed' = pushed + 1
                         /\ fifo' = Append(fifo, pushed + 1)
                    ELSE UNCHANGED <<gcodeBuffer, pushed, fifo>>
                 /\ UNCHANGED sd_exec_state
            ELSE /\ sd_exec_state' = "DONE"
                 /\ UNCHANGED <<sd_file, gcodeBuffer, pushed, fifo>>
       ELSE UNCHANGED <<sd_exec_state, sd_file, gcodeBuffer, pushed, fifo>>
    /\ pc' = "dispatch"
    /\ UNCHANGED <<motion, calc, uart, endstops, rx, sent, current_position_mm, steps, homed, absolute_mode,
                   speed_factor, steppers_disabled,
                   stepper_disable_timeout_ms, ui, out, last>>

(* ------------------------------------------------------------------ *)
(* Dispatcher: pop one command and run its handler to completion       *)
(* ------------------------------------------------------------------ *)
Popped == gcodeBuffer.buffer[gcodeBuffer.head]

Dispatching(types) ==
    /\ pc = "dispatch"
    /\ ~isEmpty(gcodeBuffer)
    /\ Popped.cmd.type \in types

\* the tags that remain after the queue has become q
Remaining(q) == SubSeq(fifo, Len(fifo) - q.count + 1, Len(fifo))

\* bookkeeping shared by the handlers: the queue after the pop(s), the
\* lines written, and the record of the command
Done(q, emitted, pulsed, res, hit) ==
    /\ gcodeBuffer' = q
    /\ fifo' = Remaining(q)
    /\ out' = out \o emitted
    /\ last' = [line |-> Popped.line, tag |-> Popped.tag, cmd |-> Popped.cmd,
                prePos |-> current_position_mm, preSteps |-> steps,
                preHomed |-> homed, preAbs |-> absolute_mode,
                postPos |-> current_position_mm', postSteps |-> steps',
                postHomed |-> homed', postAbs |-> absolute_mode',
                preCount |-> gcodeBuffer.count,
                pulsed |-> pulsed, emitted |-> emitted,
                homing |-> res, hit |-> hit]
    /\ pc' = "serial"
    /\ UNCHANGED <<motion, calc, uart, endstops, rx, sent, pushed, ui>>

\* nothing queued: the pass ends
dispatchNone ==
    /\ pc = "dispatch"
    /\ isEmpty(gcodeBuffer)
    /\ pc' = "serial"
    /\ UNCHANGED <<motion, calc, uart, endstops, rx, sent, gcodeBuffer, pushed, fifo, current_position_mm,
                   steps, homed, absolute_mode, speed_factor,
                   steppers_disabled, stepper_disable_timeout_ms,
                   sd_exec_state, sd_file, ui, out, last>>

\* where along its way an aborted jog stops
StopPoints == {"start", "halfway"}

MoveTarget(cmd) ==
    [X |-> IF ~cmd.has_x THEN current_position_mm.X
           ELSE IF absolute_mode THEN cmd.x_val
           ELSE current_position_mm.X + cmd.x_val,
     Y |-> IF ~cmd.has_y THEN current_position_mm.Y
           ELSE IF absolute_mode THEN cmd.y_val
           ELSE current_position_mm.Y + cmd.y_val,
     Z |-> IF ~cmd.has_z THEN current_position_mm.Z
           ELSE IF absolute_mode THEN cmd.z_val
           ELSE current_position_mm.Z + cmd.z_val]

\* A faulty jump test whose limit is ten times too large.
JumpTooLongLax(target) ==
    LET dx == target.X - current_position_mm.X
        dy == target.Y - current_position_mm.Y
        dz == target.Z - current_position_mm.Z
    IN (dx * dx) + (dy * dy) + (dz * dz)
           > (10 * MAX_ALLOWED_JUMP_MM) * (10 * MAX_ALLOWED_JUMP_MM)

JumpTooLong(target) ==
    LET dx == target.X - current_position_mm.X
        dy == target.Y - current_position_mm.Y
        dz == target.Z - current_position_mm.Z
    IN (dx * dx) + (dy * dy) + (dz * dz)
           > MAX_ALLOWED_JUMP_MM * MAX_ALLOWED_JUMP_MM

\* Faulty: the homed and soft-limit checks made in relative mode too.
SoftLimitsAlways == TRUE

\* if (absolute_mode): the homed and soft-limit checks are made
SoftLimitsApply == absolute_mode

NamesUnhomedAxis(cmd) ==
    \/ (cmd.has_x /\ ~homed.X)
    \/ (cmd.has_y /\ ~homed.Y)
    \/ (cmd.has_z /\ ~homed.Z)

\* Faulty: the axes commanded away from their home endstop are guarded.
JogCheckAway(cmd) ==
    [X |-> cmd.has_x /\ (IF HOME_DIR_X < 0 THEN cmd.x_val > 0 ELSE cmd.x_val < 0),
     Y |-> cmd.has_y /\ (IF HOME_DIR_Y < 0 THEN cmd.y_val > 0 ELSE cmd.y_val < 0),
     Z |-> cmd.has_z /\ (IF HOME_DIR_Z < 0 THEN cmd.z_val > 0 ELSE cmd.z_val < 0)]

\* _jog_check_x/y/z: the axes commanded toward their home endstop
JogCheck(cmd) ==
    [X |-> cmd.has_x /\ (IF HOME_DIR_X < 0 THEN cmd.x_val < 0 ELSE cmd.x_val > 0),
     Y |-> cmd.has_y /\ (IF HOME_DIR_Y < 0 THEN cmd.y_val < 0 ELSE cmd.y_val > 0),
     Z |-> cmd.has_z /\ (IF HOME_DIR_Z < 0 THEN cmd.z_val < 0 ELSE cmd.z_val > 0)]

\* step counters when runBlockingWithCheck is stopped at k
StoppedAt(target, k) ==
    [a \in Axes |->
        LET from == StepsToMmAxis(a, steps[a])
        IN MmToStepsAxis(a, IF k = "start" THEN from
                            ELSE from + ((target[a] - from) \div 2))]

SpeedInfo(id) ==
    IF speed_factor # 100 THEN <<Info("Feed", id)>> ELSE <<>>

\* a move is refused: only the error and the terminator are written
MoveRejected(code, msg) ==
    /\ UNCHANGED <<current_position_mm, steps, homed, absolute_mode,
                   speed_factor, steppers_disabled,
                   stepper_disable_timeout_ms, sd_exec_state, sd_file>>
    /\ Done(pop(gcodeBuffer),
            SpeedInfo(Popped.line) \o <<Err(code, msg, Popped.line),
                                        Ok(Popped.line)>>,
            FALSE, NoHoming, "none")

\* planned end of the move: the channels reach target_steps
MoveCompleted(target) ==
    /\ current_position_mm' = target
    /\ steps' = MmToSteps(target)
    /\ steppers_disabled' = FALSE
    /\ UNCHANGED <<homed, absolute_mode, speed_factor,
                   stepper_disable_timeout_ms, sd_exec_state, sd_file>>
    /\ Done(pop(gcodeBuffer), SpeedInfo(Popped.line) \o <<Ok(Popped.line)>>,
            MmToSteps(target) # steps, NoHoming, "none")

\* "Endstop hit on %c during jog, auto-homing"
EndstopHit(a, id) ==
    Info(CASE a = "X" -> "Endstop hit on X during jog, auto-homing"
           [] a = "Y" -> "Endstop hit on Y during jog, auto-homing"
           [] OTHER -> "Endstop hit on Z during jog, auto-homing", id)

\* a guarded jog stopped by the endstop of axis hit: auto-home that axis
MoveAborted(target, hit, k, outcome) ==
    LET id == Popped.line
        stopped == StoppedAt(target, k)
        h == homeAxis([HomingState EXCEPT !.steps = stopped,
                                          !.disabled = FALSE],
                      hit, outcome, id)
        read == [a \in Axes |-> StepsToMmAxis(a, stopped[a])]
        resync == [read EXCEPT ![hit] = IF hit = "Z" THEN PEN_UP_Z
                                        ELSE HomeEndpoint(hit)]
    IN /\ current_position_mm' = resync
       /\ steps' = MmToSteps(resync)
       /\ homed' = h.homed
       /\ steppers_disabled' = h.disabled
       /\ UNCHANGED <<absolute_mode, speed_factor,
                      stepper_disable_timeout_ms, sd_exec_state, sd_file>>
       /\ Done(pop(gcodeBuffer),
               SpeedInfo(id) \o <<EndstopHit(hit, id)>>
                   \o h.em \o <<Ok(id)>>,
               TRUE, h.res, hit)

\* case GCODE_G0 / GCODE_G1
execMove ==
    /\ Dispatching({"G0", "G1"})
    /\ LET cmd == Popped.cmd
           target == MoveTarget(cmd)
           guarded == {a \in Axes : ~absolute_mode /\ JogCheck(cmd)[a]}
           moving == MmToSteps(target) # steps
       IN IF JumpTooLong(target)
          THEN MoveRejected(ERR_OUT_OF_RANGE, "Impossible position jump detected")
          ELSE IF SoftLimitsApply /\ NamesUnhomedAxis(cmd)
          THEN MoveRejected(ERR_NOT_HOMED, "Required axis not homed")
          ELSE IF SoftLimitsApply /\ ~isValidPosition(target)
          THEN MoveRejected(ERR_OUT_OF_RANGE, "Target position out of bounds")
          ELSE \E hit \in {"none"} \cup (IF moving THEN guarded ELSE {}),
                  k \in StopPoints, outcome \in HomingOutcomes :
                  IF hit = "none"
                  THEN MoveCompleted(target)
                  ELSE MoveAborted(target, hit, k, outcome)

\* case GCODE_G28
execHome ==
    /\ Dispatching({"G28"})
    /\ \E ox, oy, oz \in HomingOutcomes :
          LET cmd == Popped.cmd
              id == Popped.line
              h0 == [HomingState EXCEPT !.disabled = FALSE]
              hx == IF cmd.home_x THEN homeAxis(h0, "X", ox, id) ELSE h0
              hy == IF cmd.home_y THEN homeAxis(hx, "Y", oy, id) ELSE hx
              hz == IF cmd.home_z THEN homeAxis(hy, "Z", oz, id) ELSE hy
              h == IF cmd.home_all THEN homeAllAxes(h0, oz, ox, oy, id) ELSE hz
              homing_success == \A a \in Axes : h.res[a] # "fail"
              seated == [a \in Axes |->
                            IF h.homed[a]
                            THEN (IF a = "Z" THEN Z_HOME_POSITION
                                  ELSE HomeEndpoint(a))
                            ELSE current_position_mm[a]]
          IN /\ current_position_mm' = seated
             /\ steps' = MmToSteps(seated)
             /\ homed' = h.homed
             /\ steppers_disabled' = h.disabled
             /\ UNCHANGED <<absolute_mode, speed_factor,
                            stepper_disable_timeout_ms, sd_exec_state, sd_file>>
             /\ Done(pop(gcodeBuffer),
                     h.em \o <<IF homing_success
                               THEN Info("Homing complete.", id)
                               ELSE Err(ERR_HOMING_FAILED, "Partial homing", id),
                               Ok(id)>>,
                     h.pulsed, h.res, "none")

\* A handler that acknowledges before it reports.
AnswerOkFirst(emitted) ==
    /\ UNCHANGED <<current_position_mm, steps, homed, absolute_mode,
                   speed_factor, steppers_disabled,
                   stepper_disable_timeout_ms, sd_exec_state, sd_file>>
    /\ Done(pop(gcodeBuffer),
            <<emitted[Len(emitted)]>> \o SubSeq(emitted, 1, Len(emitted) - 1),
            FALSE, NoHoming, "none")

\* handlers that only write lines
Answer(emitted) ==
    /\ UNCHANGED <<current_position_mm, steps, homed, absolute_mode,
                   speed_factor, steppers_disabled,
                   stepper_disable_timeout_ms, sd_exec_state, sd_file>>
    /\ Done(pop(gcodeBuffer), emitted, FALSE, NoHoming, "none")

\* case GCODE_G90 / GCODE_G91
execMode ==
    /\ Dispatching({"G90", "G91"})
    /\ absolute_mode' = (Popped.cmd.type = "G90")
    /\ UNCHANGED <<current_position_mm, steps, homed, speed_factor,
                   steppers_disabled, stepper_disable_timeout_ms,
                   sd_exec_state, sd_file>>
    /\ Done(pop(gcodeBuffer),
            <<Info(IF Popped.cmd.type = "G90"
                   THEN "Absolute positioning mode (G90)"
                   ELSE "Relative positioning mode (G91)", Popped.line),
              Ok(Popped.line)>>,
            FALSE, NoHoming, "none")

\* case GCODE_G92
execSetPosition ==
    /\ Dispatching({"G92"})
    /\ LET cmd == Popped.cmd
           p == [X |-> IF cmd.has_x THEN cmd.x_val ELSE current_position_mm.X,
                 Y |-> IF cmd.has_y THEN cmd.y_val ELSE current_position_mm.Y,
                 Z |-> IF cmd.has_z THEN cmd.z_val ELSE current_position_mm.Z]
       IN /\ current_position_mm' = p
          /\ steps' = MmToSteps(p)
    /\ UNCHANGED <<homed, absolute_mode, speed_factor, steppers_disabled,
                   stepper_disable_timeout_ms, sd_exec_state, sd_file>>
    /\ Done(pop(gcodeBuffer),
            <<Info("Current position set.", Popped.line), Ok(Popped.line)>>,
            FALSE, NoHoming, "none")

\* Faulty: releasing the motors also forgets that the axes were homed.
execDisableSteppersForgetHoming ==
    /\ Dispatching({"M84"})
    /\ stepper_disable_timeout_ms' =
          IF Popped.cmd.has_s
          THEN (IF Popped.cmd.s_val = 0 THEN 0 ELSE Popped.cmd.s_val * 1000)
          ELSE DefaultTimeoutMs
    /\ steppers_disabled' = TRUE
    /\ homed' = [a \in Axes |-> FALSE]
    /\ UNCHANGED <<current_position_mm, steps, absolute_mode,
                   speed_factor, sd_exec_state, sd_file>>
    /\ Done(pop(gcodeBuffer),
            <<Info("Steppers disabled", Popped.line), Ok(Popped.line)>>,
            FALSE, NoHoming, "none")

\* case GCODE_M84
execDisableSteppers ==
    /\ Dispatching({"M84"})
    /\ stepper_disable_timeout_ms' =
          IF Popped.cmd.has_s
          THEN (IF Popped.cmd.s_val = 0 THEN 0 ELSE Popped.cmd.s_val * 1000)
          ELSE DefaultTimeoutMs
    /\ steppers_disabled' = TRUE
    /\ UNCHANGED <<current_position_mm, steps, homed, absolute_mode,
                   speed_factor, sd_exec_state, sd_file>>
    /\ Done(pop(gcodeBuffer),
            <<Info("Steppers disabled", Popped.line), Ok(Popped.line)>>,
            FALSE, NoHoming, "none")

constrain(v, lo, hi) == IF v < lo THEN lo ELSE IF v > hi THEN hi ELSE v

\* case GCODE_M220
execSpeedFactor ==
    /\ Dispatching({"M220"})
    /\ speed_factor' = IF Popped.cmd.has_s
                       THEN constrain(Popped.cmd.s_val, 1, 999)
                       ELSE speed_factor
    /\ UNCHANGED <<current_position_mm, steps, homed, absolute_mode,
                   steppers_disabled, stepper_disable_timeout_ms,
                   sd_exec_state, sd_file>>
    /\ Done(pop(gcodeBuffer),
            (IF Popped.cmd.has_s
             THEN <<Info("Speed factor set", Popped.line)>> ELSE <<>>)
                \o <<Ok(Popped.line)>>,
            FALSE, NoHoming, "none")

\* case GCODE_M0
execStop ==
    /\ Dispatching({"M0"})
    /\ IF sd_exec_state \in {"RUNNING", "PAUSED"}
       THEN sd_exec_state' = "DONE" /\ sd_file' = <<>>
       ELSE UNCHANGED <<sd_exec_state, sd_file>>
    /\ steppers_disabled' = TRUE
    /\ UNCHANGED <<current_position_mm, steps, homed, absolute_mode,
                   speed_factor, stepper_disable_timeout_ms>>
    /\ Done(drain(pop(gcodeBuffer)),
            <<Info("M0: Stop.", Popped.line), Ok(Popped.line)>>,
            FALSE, NoHoming, "none")

\* case GCODE_M410
\* Faulty: QuickStop leaves the queued commands in the queue.
execQuickStopKeepQueue ==
    /\ Dispatching({"M410"})
    /\ steppers_disabled' = TRUE
    /\ UNCHANGED <<current_position_mm, steps, homed, absolute_mode,
                   speed_factor, stepper_disable_timeout_ms, sd_exec_state,
                   sd_file>>
    /\ Done(pop(gcodeBuffer),
            <<Info("M410: Quickstop initiated.", Popped.line),
              Ok(Popped.line)>>,
            FALSE, NoHoming, "none")

execQuickStop ==
    /\ Dispatching({"M410"})
    /\ steppers_disabled' = TRUE
    /\ UNCHANGED <<current_position_mm, steps, homed, absolute_mode,
                   speed_factor, stepper_disable_timeout_ms, sd_exec_state,
                   sd_file>>
    /\ Done(drain(pop(gcodeBuffer)),
            <<Info("M410: Quickstop initiated.", Popped.line),
              Ok(Popped.line)>>,
            FALSE, NoHoming, "none")

\* case GCODE_M24 / GCODE_M25
execPauseResume ==
    /\ Dispatching({"M24", "M25"})
    /\ LET from == IF Popped.cmd.type = "M24" THEN "PAUSED" ELSE "RUNNING"
           to == IF Popped.cmd.type = "M24" THEN "RUNNING" ELSE "PAUSED"
       IN /\ sd_exec_state' = IF sd_exec_state = from THEN to ELSE sd_exec_state
          /\ UNCHANGED <<current_position_mm, steps, homed, absolute_mode,
                         speed_factor, steppers_disabled,
                         stepper_disable_timeout_ms, sd_file>>
          /\ Done(pop(gcodeBuffer),
                  <<Info(IF sd_exec_state = from THEN "state changed"
                         ELSE "nothing to change", Popped.line),
                    Ok(Popped.line)>>,
                  FALSE, NoHoming, "none")

\* case GCODE_M114 / M115 / M119 / M503
execQuery ==
    /\ Dispatching({"M114", "M115", "M119", "M503"})
    /\ LET id == Popped.line
           t == Popped.cmd.type
       IN Answer((CASE t = "M114" -> <<PositionLine(current_position_mm, id)>>
                    [] t = "M115" -> <<Data("FIRMWARE_NAME", id)>>
                    [] t = "M119" -> <<Data("x_min", id), Data("y_min", id),
                                       Data("z_min", id)>>
                    [] OTHER -> <<Info("Reporting settings", id)>>)
                 \o <<Ok(id)>>)

\* case GCODE_M999: raw pulses on the step pin, the counters are not told
execMotorTest ==
    /\ Dispatching({"M999"})
    /\ UNCHANGED <<current_position_mm, steps, homed, absolute_mode,
                   speed_factor, steppers_disabled,
                   stepper_disable_timeout_ms, sd_exec_state, sd_file>>
    /\ Done(pop(gcodeBuffer),
            <<Info("M999: Testing motor", Popped.line),
              Info("M999: raw test complete", Popped.line), Ok(Popped.line)>>,
            TRUE, NoHoming, "none")

(* ------------------------------------------------------------------ *)
(* Specifications                                                      *)
(* ------------------------------------------------------------------ *)
\* one pass of loop() with nobody at the operator panel
QuietPass ==
    \/ handleSerialInput
    \/ potentiometerUpdate
    \/ lcdIdle
    \/ idleCheck
    \/ sdFeed
    \/ dispatchNone

\* the operator turns the knob or presses the button
PanelEvent ==
    \/ potentiometerTurned
    \/ lcdHome
    \/ lcdPenTest
    \/ lcdSdClick
    \/ lcdLongPress

\* every command type from the host
Next ==
    \/ HostSend
    \/ QuietPass
    \/ execMove
    \/ execHome
    \/ execMode
    \/ execSetPosition
    \/ execDisableSteppers
    \/ execSpeedFactor
    \/ execStop
    \/ execQuickStop
    \/ execPauseResume
    \/ execQuery
    \/ execMotorTest

Spec == Init /\ [][Next]_vars

\* positioning commands from the host
NextMove ==
    \/ HostMove
    \/ QuietPass
    \/ execMove
    \/ execHome
    \/ execMode
    \/ execQuery

SpecMove == Init /\ [][NextMove]_vars

\* homing commands from the host
NextHome ==
    \/ HostHome
    \/ QuietPass
    \/ execHome
    \/ execSetPosition

SpecHome == Init /\ [][NextHome]_vars

\* the operator at the panel while the host jogs
NextPanel ==
    \/ HostPanel
    \/ QuietPass
    \/ PanelEvent
    \/ execMove
    \/ execMode
    \/ execQuery
    \/ execQuickStop

SpecPanel == Init /\ [][NextPanel]_vars

\* the host floods the queue with short moves while a file is fed
NextFlood ==
    \/ HostFlood
    \/ QuietPass
    \/ lcdSdClick
    \/ execMove
    \/ execQuickStop

SpecFlood == Init /\ [][NextFlood]_vars

\* homing and long jogs from the host
NextJog ==
    \/ HostJog
    \/ QuietPass
    \/ execMove
    \/ execHome
    \/ execMode

SpecJog == Init /\ [][NextJog]_vars

\* relative jogs from the host, the endstops free to trip
NextAbort ==
    \/ HostAbort
    \/ QuietPass
    \/ execMove
    \/ execMode

SpecAbort == Init /\ [][NextAbort]_vars

\* the host sets the idle timeout and moves
NextIdle ==
    \/ HostIdle
    \/ QuietPass
    \/ execMove
    \/ execMode
    \/ execDisableSteppers

SpecIdle == Init /\ [][NextIdle]_vars

\* a file is executed while the host sends moves, Stop and QuickStop
NextStop ==
    \/ HostStop
    \/ QuietPass
    \/ lcdSdClick
    \/ execMove
    \/ execMode
    \/ execStop
    \/ execQuickStop

SpecStop == Init /\ [][NextStop]_vars

\* a file is executed while the host fills the queue and sends Pause
\* and Resume
NextFile ==
    \/ HostBurst
    \/ HostControl
    \/ QuietPass
    \/ lcdSdClick
    \/ execMove
    \/ execQuickStop
    \/ execPauseResume

SpecFile == Init /\ [][NextFile]_vars

\* the host writes bytes: lines of any length
NextBytes ==
    \/ HostBytes
    \/ readSerialByte
    \/ serialDrained
    \/ potentiometerUpdate
    \/ lcdIdle
    \/ idleCheck
    \/ sdFeed
    \/ dispatchNone
    \/ execHome

SpecBytes == Init /\ [][NextBytes]_vars

\* the endstop pins and the debounced reading
NextEndstops ==
    \/ endstopsInit
    \/ millisTick
    \/ endstopQuery
    \/ jogBegin
    \/ jogCheck
    \/ jogArrive

SpecEndstops == Init /\ [][NextEndstops]_vars

(* ------------------------------------------------------------------ *)
(* Observations on the output and the queue                            *)
(* ------------------------------------------------------------------ *)
\* number of `ok` lines written for input line id
OkCount(id) ==
    Cardinality({i \in 1..Len(out) : out[i].k = "ok" /\ out[i].line = id})

\* input lines still in the receive buffer
RxIds == {rx[i].id : i \in 1..Len(rx)}

\* input lines whose record waits in the queue
QueuedIds(q) == {Queued(q)[i].line : i \in 1..q.count} \ {0}

\* the line is neither waiting to be read nor waiting to be executed
Settled(id) == id \notin RxIds /\ id \notin QueuedIds(gcodeBuffer)

(* ------------------------------------------------------------------ *)
(* C1  Terminator exactness                                            *)
(* ------------------------------------------------------------------ *)
\* C1: every non-empty input line gets exactly one ok: never two, and one
\* once the line is neither in the receive buffer nor in the queue,
\* including the lines that waited in the queue when M0 or M410 ran.
C1_TerminatorExactness ==
    \A id \in 1..Len(sent) :
        sent[id].letter # "" =>
            /\ OkCount(id) <= 1
            /\ Settled(id) => OkCount(id) = 1

(* ------------------------------------------------------------------ *)
(* C2  The producer never acknowledges a queued command                *)
(* ------------------------------------------------------------------ *)
\* a record waiting in the queue has not been answered
QueuedUnanswered ==
    \A id \in QueuedIds(gcodeBuffer) : OkCount(id) = 0

\* an ok appears for a queued line only in the step that pops it and runs
\* its handler; the producer writes an ok only for a line it does not queue
OkFromItsOwner ==
    \A id \in 1..Len(sent) :
        OkCount(id)' > OkCount(id) =>
            IF id \in QueuedIds(gcodeBuffer)
            THEN /\ pc = "dispatch"
                 /\ Popped.line = id
                 /\ last'.line = id
                 /\ id \notin QueuedIds(gcodeBuffer')
            ELSE /\ pc = "serial"
                 /\ id \in RxIds
                 /\ id \notin QueuedIds(gcodeBuffer')

\* C2: a known command pushed into the queue gets no ok from the line
\* assembler; its ok is written by the dispatcher, in the step that pops
\* the record and runs its handler to completion.
C2_ProducerNeverAcks ==
    []QueuedUnanswered /\ [][OkFromItsOwner]_vars

\* one line has been executed and answered while another waits unanswered
C2_Witness ==
    /\ last.line # 0
    /\ OkCount(last.line) = 1
    /\ \E id \in QueuedIds(gcodeBuffer) : OkCount(id) = 0

(* ------------------------------------------------------------------ *)
(* C3  Queue bound                                                     *)
(* ------------------------------------------------------------------ *)
\* the lines written for input line id, in order
Replies(id) == SelectSeq(out, LAMBDA r : r.line = id)

Overflow(id) ==
    <<Err(ERR_BUFFER_OVERFLOW, "Command buffer full", id), Ok(id)>>

\* what the line assembler does with one more known line in this state
Arrival(l) ==
    processIncomingLine([q |-> gcodeBuffer, out |-> <<>>, pushed |-> pushed,
                         fifo |-> fifo],
                        [text |-> l, id |-> Len(sent) + 1])

\* nothing has been consumed yet and the file feeder is off
NothingConsumed ==
    last = NoCommand /\ pushed = Len(fifo) /\ sd_exec_state = "IDLE"

\* C3: the queue never holds more than 8 records; a known command that
\* arrives at a full queue is not enqueued, leaves the queue as it is and
\* is answered with error 7; of 9 moves received before any is consumed
\* the first 8 are queued and the 9th is answered with error 7.
C3_QueueBound ==
    /\ gcodeBuffer.count <= 8
    /\ Len(fifo) = gcodeBuffer.count
    /\ isFull(gcodeBuffer) =>
          \A l \in FloodLines :
              /\ Arrival(l).q = gcodeBuffer
              /\ Arrival(l).fifo = fifo
              /\ Arrival(l).out = Overflow(Len(sent) + 1)
    /\ (NothingConsumed /\ rx = <<>>) =>
          \A id \in 1..Len(sent) :
              IF id <= 8
              THEN /\ Replies(id) = <<>>
                   /\ Queued(gcodeBuffer)[id].line = id
                   /\ Queued(gcodeBuffer)[id].cmd = parse(sent[id])
              ELSE Replies(id) = Overflow(id)

\* nine moves were received in a row: eight wait, the ninth was refused
C3_Witness ==
    /\ NothingConsumed
    /\ rx = <<>>
    /\ Len(sent) = 9
    /\ gcodeBuffer.count = 8
    /\ Replies(9) = Overflow(9)

(* ------------------------------------------------------------------ *)
(* C4  FIFO execution order                                            *)
(* ------------------------------------------------------------------ *)
\* the ring holds the pushed-and-not-popped records, oldest first
RingIsFifo ==
    /\ Len(fifo) = gcodeBuffer.count
    /\ \A i \in 1..gcodeBuffer.count : Queued(gcodeBuffer)[i].tag = fifo[i]
    /\ \A i \in 1..Len(fifo) : fifo[i] <= pushed
    /\ \A i \in 1..(Len(fifo) - 1) : fifo[i + 1] = fifo[i] + 1

\* the record a dispatch executes is the oldest one waiting; it follows
\* the record executed before it unless that one drained the queue
ExecutesOldest ==
    last' # last =>
        /\ fifo # <<>>
        /\ last'.tag = Head(fifo)
        /\ IF last.cmd.type \in {"M0", "M410"}
           THEN last'.tag > last.tag
           ELSE last'.tag = last.tag + 1

\* C4: records are executed in the order they were pushed, by the line
\* assembler or by the file feeder, also after the ring indices have
\* wrapped; none is executed twice, none is skipped except those a
\* Stop or QuickStop drains.
C4_FifoOrder ==
    []RingIsFifo /\ [][ExecutesOldest]_vars

\* a record pushed after the write index wrapped has been executed, with
\* the file feeder pushing too and more records waiting
C4_Witness ==
    /\ last.tag > GCODE_BUFFER_SIZE
    /\ sd_exec_state # "IDLE"
    /\ gcodeBuffer.count > 0

(* ------------------------------------------------------------------ *)
(* Observations on the command executed last                           *)
(* ------------------------------------------------------------------ *)
LastIsMove == last.cmd.type \in {"G0", "G1"}

\* the target the command names, composed from the state before it
LastTarget ==
    [X |-> IF ~last.cmd.has_x THEN last.prePos.X
           ELSE IF last.preAbs THEN last.cmd.x_val
           ELSE last.prePos.X + last.cmd.x_val,
     Y |-> IF ~last.cmd.has_y THEN last.prePos.Y
           ELSE IF last.preAbs THEN last.cmd.y_val
           ELSE last.prePos.Y + last.cmd.y_val,
     Z |-> IF ~last.cmd.has_z THEN last.prePos.Z
           ELSE IF last.preAbs THEN last.cmd.z_val
           ELSE last.prePos.Z + last.cmd.z_val]

\* the Euclidean distance to the target exceeds 1000 mm
LastJumps ==
    LET dx == LastTarget.X - last.prePos.X
        dy == LastTarget.Y - last.prePos.Y
        dz == LastTarget.Z - last.prePos.Z
    IN (dx * dx) + (dy * dy) + (dz * dz) > 1000 * 1000

LastOutside ==
    \/ LastTarget.X < 0 \/ LastTarget.X > 234
    \/ LastTarget.Y < 0 \/ LastTarget.Y > 191
    \/ LastTarget.Z < 0 \/ LastTarget.Z > 203

LastNamesUnhomed ==
    \/ (last.cmd.has_x /\ ~last.preHomed.X)
    \/ (last.cmd.has_y /\ ~last.preHomed.Y)
    \/ (last.cmd.has_z /\ ~last.preHomed.Z)

\* what the command wrote, the informational lines left out
Verdict == SelectSeq(last.emitted, LAMBDA r : r.k # "info")

LastErrors == {last.emitted[i].c : i \in 1..Len(last.emitted)} \ {0}

NotHomed(id) == Err(6, "Required axis not homed", id)

OutOfBounds(id) == Err(3, "Target position out of bounds", id)

ImpossibleJump(id) == Err(3, "Impossible position jump detected", id)

\* no step was emitted and nothing of the machine state changed
LastRefused ==
    /\ ~last.pulsed
    /\ last.postPos = last.prePos
    /\ last.postSteps = last.preSteps
    /\ last.postHomed = last.preHomed
    /\ last.postAbs = last.preAbs

\* the lines written for the first n input lines, in order
RepliesUpTo(n) == SelectSeq(out, LAMBDA r : r.line \in 1..n)

G90Line == Line("G", <<9, 0>>, NoArgs)

G91Line == Line("G", <<9, 1>>, NoArgs)

(* ------------------------------------------------------------------ *)
(* C5  Absolute-mode rejection                                         *)
(* ------------------------------------------------------------------ *)
\* from fresh boot G90, G0 X10 Y10 F3000: info, ok, error 6, ok, and the
\* position stays (0,0,0)
C5_Scenario ==
    (/\ Len(sent) >= 2
     /\ sent[1] = G90Line
     /\ sent[2] = Move(Arg1("X", 10) @@ Arg1("Y", 10) @@ Arg1("F", 3000))
     /\ last.line = 2) =>
        /\ RepliesUpTo(2) = <<Info("Absolute positioning mode (G90)", 1), Ok(1),
                              NotHomed(2), Ok(2)>>
        /\ current_position_mm = [X |-> 0, Y |-> 0, Z |-> 0]

\* C5 as stated: in absolute mode a G0/G1 whose target is outside the soft
\* limits or that names an un-homed axis is answered error 3 'Target
\* position out of bounds' resp. error 6 'Required axis not homed', then
\* ok, emits no step and leaves position and step counters as they were.
C5_AsStated ==
    /\ (LastIsMove /\ last.preAbs /\ (LastOutside \/ LastNamesUnhomed)) =>
          /\ Verdict = <<IF LastNamesUnhomed THEN NotHomed(last.line)
                         ELSE OutOfBounds(last.line), Ok(last.line)>>
          /\ LastRefused
    /\ C5_Scenario

\* C5 amended: the same, for a move whose distance to the target does not
\* exceed the maximum jump of 1000 mm (a longer one is refused by the jump
\* check first, with error 3 'Impossible position jump detected').
C5_AbsoluteRejection ==
    /\ (LastIsMove /\ last.preAbs /\ ~LastJumps
            /\ (LastOutside \/ LastNamesUnhomed)) =>
          /\ Verdict = <<IF LastNamesUnhomed THEN NotHomed(last.line)
                         ELSE OutOfBounds(last.line), Ok(last.line)>>
          /\ LastRefused
    /\ C5_Scenario

\* all axes homed, absolute mode: a move beyond the Y limit was refused
C5_Witness ==
    /\ LastIsMove
    /\ last.preAbs
    /\ ~LastNamesUnhomed
    /\ LastOutside
    /\ Verdict = <<OutOfBounds(last.line), Ok(last.line)>>

(* ------------------------------------------------------------------ *)
(* C6  Jump rejection                                                  *)
(* ------------------------------------------------------------------ *)
\* C6: a G0/G1 whose distance to the composed target exceeds 1000 mm is
\* answered error 3 'Impossible position jump detected' then ok, in
\* absolute and in relative mode, whatever the homed flags and the soft
\* limits say; no step is emitted, position and counters are unchanged.
C6_JumpRejection ==
    (LastIsMove /\ LastJumps) =>
        /\ Verdict = <<ImpossibleJump(last.line), Ok(last.line)>>
        /\ LastRefused

\* relative mode, target outside the limits, axis not homed: refused as a
\* jump
C6_Witness ==
    /\ LastIsMove
    /\ ~last.preAbs
    /\ LastJumps
    /\ LastOutside
    /\ LastNamesUnhomed
    /\ Verdict = <<ImpossibleJump(last.line), Ok(last.line)>>

(* ------------------------------------------------------------------ *)
(* C7  Relative-mode jog freedom                                       *)
(* ------------------------------------------------------------------ *)
\* from fresh boot G91, G0 X5 F5000, M114: when no endstop trips the
\* report is X:5 Y:0 Z:0
C7_Scenario ==
    (/\ Len(sent) = 3
     /\ sent[1] = G91Line
     /\ sent[2] = Move(Arg1("X", 5) @@ Arg1("F", 5000))
     /\ sent[3] = Line("M", <<1, 1, 4>>, NoArgs)
     /\ last.line = 3
     /\ Replies(2) = <<Ok(2)>>) =>
        Replies(3) = <<PositionLine([X |-> 5, Y |-> 0, Z |-> 0], 3), Ok(3)>>

\* C7: in relative mode a G0/G1 within the maximum jump is never answered
\* error 6 nor error 3, whatever the homed flags and the target; when no
\* endstop trips the position afterwards is the position before plus the
\* offsets of the command.
C7_RelativeJogFreedom ==
    /\ (LastIsMove /\ ~last.preAbs /\ ~LastJumps) =>
          /\ 6 \notin LastErrors
          /\ 3 \notin LastErrors
          /\ last.emitted[Len(last.emitted)] = Ok(last.line)
          /\ last.hit = "none" =>
                /\ Verdict = <<Ok(last.line)>>
                /\ last.postPos = LastTarget
                /\ last.postSteps = MmToSteps(LastTarget)
    /\ C7_Scenario

\* relative mode, Y not homed: a jog past the Y limit was carried out
C7_Witness ==
    /\ LastIsMove
    /\ ~last.preAbs
    /\ ~LastJumps
    /\ LastNamesUnhomed
    /\ LastOutside
    /\ last.pulsed
    /\ last.postPos = LastTarget
    /\ last.postPos # last.prePos

(* ------------------------------------------------------------------ *)
(* C8  State monotonicity                                              *)
(* ------------------------------------------------------------------ *)
\* C8: a command whose execution writes an error line leaves the logical
\* position, the homed flags and the positioning mode as they were before
\* it, except a Home command that writes error 5; this includes a Move
\* whose auto-homing writes error 5.
C8_StateMonotonicity ==
    (/\ LastErrors # {}
     /\ ~(last.cmd.type = "G28" /\ LastErrors = {5})) =>
        /\ last.postPos = last.prePos
        /\ last.postHomed = last.preHomed
        /\ last.postAbs = last.preAbs

(* ------------------------------------------------------------------ *)
(* C9  Failed homing                                                   *)
(* ------------------------------------------------------------------ *)
\* C9: after a Home command in which the homing of an axis failed, the
\* homed flag of that axis is false and its logical position is 0,
\* whatever they were before the command.
C9_FailedHoming ==
    last.cmd.type = "G28" =>
        \A a \in Axes :
            last.homing[a] = "fail" =>
                /\ ~last.postHomed[a]
                /\ last.postPos[a] = 0

(* ------------------------------------------------------------------ *)
(* C10  Successful homing                                              *)
(* ------------------------------------------------------------------ *)
\* C10: after a Home command in which the homing of axis A succeeded, A's
\* homed flag is true, A's logical position is its soft-limit maximum when
\* it homes toward +1 and 0 when it homes toward -1 (for Z the park
\* position), A's step counter is mmToSteps of that position; the logical
\* position of an axis the command did not home is unchanged.
C10_SuccessfulHoming ==
    last.cmd.type = "G28" =>
        \A a \in Axes :
            /\ last.homing[a] = "ok" =>
                  /\ last.postHomed[a]
                  /\ last.postPos[a] = (CASE a = "X" -> 234
                                           [] a = "Y" -> 0
                                           [] OTHER -> 2)
                  /\ last.postSteps[a] = last.postPos[a] * StepsPerMm(a)
            /\ last.homing[a] = "none" => last.postPos[a] = last.prePos[a]

(* ------------------------------------------------------------------ *)
(* C11  Soft-limit scenario                                            *)
(* ------------------------------------------------------------------ *)
G28Line == Line("G", <<2, 8>>, NoArgs)

AllHomingOk == \A a \in Axes : last.homing[a] = "ok"

\* Home-all is the first line and all three axes succeeded
HomedAllFirst ==
    /\ Len(sent) >= 1
    /\ sent[1] = G28Line
    /\ last.line = 1
    /\ AllHomingOk

\* G0 X300 F5000 is the second line, executed next in absolute mode
X300AfterHomeAll ==
    /\ Len(sent) >= 2
    /\ sent[1] = G28Line
    /\ sent[2] = Move(Arg1("X", 300) @@ Arg1("F", 5000))
    /\ last.line = 2
    /\ last.preAbs
    /\ \A a \in Axes : last.preHomed[a]

\* the scenario with park as the position after the Home-all
SoftLimitScenario(park) ==
    /\ HomedAllFirst => current_position_mm = park
    /\ X300AfterHomeAll =>
          /\ last.prePos = park
          /\ Replies(2) = <<OutOfBounds(2), Ok(2)>>
          /\ ~last.pulsed
          /\ current_position_mm = park

\* C11 as stated: with XMax = 234, after a Home-all in which all three
\* axes succeed the position is (234, 191, 2); an absolute G0 X300 F5000
\* issued next is answered error 3 'Target position out of bounds' then
\* ok and the position is still (234, 191, 2).
C11_AsStated == SoftLimitScenario([X |-> 234, Y |-> 191, Z |-> 2])

\* C11 amended: the same with the position (234, 0, 2): Y homes toward its
\* minimum endstop and is seated at 0.
C11_SoftLimitScenario == SoftLimitScenario([X |-> 234, Y |-> 0, Z |-> 2])

\* the move past XMax was refused after a complete Home-all
C11_Witness ==
    /\ X300AfterHomeAll
    /\ Replies(2) = <<OutOfBounds(2), Ok(2)>>
    /\ current_position_mm = [X |-> 234, Y |-> 0, Z |-> 2]

(* ------------------------------------------------------------------ *)
(* C12  Endstop-safe jog scenario                                      *)
(* ------------------------------------------------------------------ *)
\* the last command is the relative jog G0 X<dx> F5000, carried out after
\* X was homed (X homes toward its max endstop and sits at XMax)
JogAfterHomingX(dx) ==
    /\ HOME_DIR_X = 1
    /\ LastIsMove
    /\ last.cmd = parse(Move(Arg1("X", dx) @@ Arg1("F", 5000)))
    /\ ~last.preAbs
    /\ last.preHomed.X
    /\ last.prePos.X = 234

\* the axes for which the endstop-abort guard was selected
LastGuard ==
    IF LastIsMove /\ ~last.preAbs /\ LastErrors \cap {3, 6} = {}
    THEN {a \in Axes : JogCheck(last.cmd)[a]}
    ELSE {}

\* the X endstop stopped the jog: info naming X first, X auto-homed and
\* reseated to XMax, one ok at the end
AbortedOnX ==
    /\ Head(last.emitted) = EndstopHit("X", last.line)
    /\ last.homing.X # "none"
    /\ last.homing.Y = "none" /\ last.homing.Z = "none"
    /\ last.postPos.X = 234
    /\ last.postSteps.X = 234 * 160
    /\ last.emitted[Len(last.emitted)] = Ok(last.line)
    /\ OkCount(last.line) = 1

\* the jog ran to its end: only the ok, X at the commanded offset
RanToTarget(dx) ==
    /\ last.hit = "none"
    /\ last.emitted = <<Ok(last.line)>>
    /\ last.postPos.X = 234 + dx
    /\ last.postSteps.X = (234 + dx) * 160

\* C12 as stated: in relative mode after homing X (X homes toward max),
\* G0 X-300 F5000 runs under the endstop-abort guard for X; when the X
\* endstop trips the firmware writes an info line naming X, auto-homes X,
\* reseats X to XMax and writes exactly one ok.
C12_AsStated ==
    JogAfterHomingX(-300) =>
        /\ "X" \in LastGuard
        /\ last.hit = "X" => AbortedOnX

\* C12 amended: the jog toward the max endstop, G0 X300 F5000, runs under
\* the guard for X, and when the X endstop trips the firmware writes an
\* info line naming X, auto-homes X, reseats X to XMax and writes exactly
\* one ok; G0 X-300 F5000 moves away from the endstop, runs unguarded and
\* ends at X = -66 with one ok.
C12_EndstopSafeJog ==
    /\ JogAfterHomingX(300) =>
          /\ LastGuard = {"X"}
          /\ last.hit \in {"X", "none"}
          /\ last.hit = "X" => AbortedOnX
          /\ last.hit = "none" => RanToTarget(300)
    /\ JogAfterHomingX(-300) =>
          /\ LastGuard = {}
          /\ RanToTarget(-300)

\* after G91 and a successful G28 X the jog toward the endstop was stopped
\* by it and X was auto-homed
C12_Witness ==
    /\ JogAfterHomingX(300)
    /\ last.hit = "X"
    /\ last.homing.X = "ok"
    /\ AbortedOnX
    /\ current_position_mm.X = 234

(* ------------------------------------------------------------------ *)
(* C13  Debounce                                                       *)
(* ------------------------------------------------------------------ *)
\* C13: the debounced isTriggered result becomes true only when the
\* polarity-corrected raw pin has been triggered without interruption for
\* at least the debounce window of 10 ms, whatever the raw signal does and
\* whenever the queries are made.
C13_Debounce ==
    endstops.promoted => endstops.held >= 10

(* ------------------------------------------------------------------ *)
(* C14  Overlong line                                                  *)
(* ------------------------------------------------------------------ *)
LineTooLong(id) == Err(7, "Incoming line too long", id)

\* line id ran over the 64 characters of the line buffer
Overlong(id) == \E i \in 1..Len(out) : out[i] = LineTooLong(id)

\* C14: a line longer than 64 characters is answered with error 7 and
\* discarded up to its terminator: nothing of it is parsed (no other
\* reply of the line assembler or of a handler belongs to it), enqueued
\* or executed.
C14_OverlongLine ==
    \A id \in 1..(uart.lines + 1) :
        Overlong(id) =>
            /\ \A i \in 1..Len(out) :
                  out[i].line = id => out[i] = LineTooLong(id)
            /\ id \notin QueuedIds(gcodeBuffer)
            /\ last.line # id

(* ------------------------------------------------------------------ *)
(* C15  Unknown classification                                         *)
(* ------------------------------------------------------------------ *)
RecognisedG == {0, 1, 28, 90, 91, 92}

RecognisedM == {0, 24, 25, 84, 114, 115, 119, 220, 410, 503, 999}

\* the line begins with G or M followed by the digits of a recognised
\* command number
Recognised(line) ==
    /\ line.digits # <<>>
    /\ \/ line.letter = "G" /\ Atoi(line.digits) \in RecognisedG
       \/ line.letter = "M" /\ Atoi(line.digits) \in RecognisedM

\* C15: a non-empty line that does not begin with G or M followed by the
\* digits of a recognised command number (G or M followed by no digit
\* included: M, MOVE, G X10) is classified Unknown, is answered error 1
\* then ok, and is never enqueued or executed.
C15_UnknownClassification ==
    \A id \in 1..Len(sent) :
        (sent[id].letter # "" /\ ~Recognised(sent[id])) =>
            /\ parse(sent[id]).type = "UNKNOWN"
            /\ id \notin QueuedIds(gcodeBuffer)
            /\ last.line # id
            /\ id \notin RxIds =>
                  Replies(id) = <<Err(1, "line", id), Ok(id)>>

(* ------------------------------------------------------------------ *)
(* C16  G28 axis selection                                             *)
(* ------------------------------------------------------------------ *)
\* the axes a line names
Named(line) == {a \in Axes : a \in DOMAIN line.args}

\* the axes whose homing sequence the command ran
Attempted == {a \in Axes : last.homing[a] # "none"}

\* C16: the 'all' flag of a parsed G28 is true exactly when the line
\* names none of X, Y, Z; a G28 that names axes homes exactly those, a
\* G28 that names none homes all three.
C16_AxisSelection ==
    (last.cmd.type = "G28" /\ last.line # 0) =>
        /\ last.cmd.home_all <=> (Named(sent[last.line]) = {})
        /\ Attempted = IF Named(sent[last.line]) = {} THEN Axes
                       ELSE Named(sent[last.line])

(* ------------------------------------------------------------------ *)
(* C17  Position / step-counter lockstep                               *)
(* ------------------------------------------------------------------ *)
Abs(n) == IF n < 0 THEN -n ELSE n

\* every counter is mmToSteps of the logical position, up to one step
InLockstep ==
    \A a \in Axes :
        Abs(steps[a] - MmToStepsAxis(a, current_position_mm[a])) <= 1

\* the axes whose counter the last command changed
LastMoved == {a \in Axes : last.postSteps[a] # last.preSteps[a]}

LastNamed ==
    {a \in Axes : \/ a = "X" /\ last.cmd.has_x
                  \/ a = "Y" /\ last.cmd.has_y
                  \/ a = "Z" /\ last.cmd.has_z}

\* C17: between commands, after any sequence of serial commands, file
\* commands and menu actions (home from the menu, pen test), every step
\* counter equals mmToSteps of the logical position up to one step; a
\* Move moves no axis that it does not name.
C17_Lockstep ==
    /\ pc = "serial" => InLockstep
    /\ (LastIsMove /\ last.hit = "none") => LastMoved \subseteq LastNamed

(* ------------------------------------------------------------------ *)
(* Kinematics on a finer grid: lengths in micrometres, so that the     *)
(* truncation of the cast is visible.  A length returned by the        *)
(* inverse conversion is the fraction num / den of a micrometre.       *)
(* ------------------------------------------------------------------ *)
MaxMicrons == 7

MicronsPerMm == 1000

\* the (long) cast: truncation toward zero
Trunc(n, d) == IF n >= 0 THEN n \div d ELSE -((-n) \div d)

\* A conversion that uses the Z scale for every axis.
mmToStepsZScale(a, um) == Trunc(um * Z_STEPS_PER_MM, MicronsPerMm)

\* Kinematics::mmToStepsX/Y/Z: (long)(mm * STEPS_PER_MM)
mmToStepsMicro(a, um) == Trunc(um * StepsPerMm(a), MicronsPerMm)

\* Kinematics::stepsToMmX/Y/Z: (float)steps / STEPS_PER_MM
stepsToMmMicro(a, s) == [num |-> s * MicronsPerMm, den |-> StepsPerMm(a)]

\* lengths around the ends of the travel and around the origin
KinValues ==
    { base + d : base \in {-X_MAX_POS * MicronsPerMm, -MicronsPerMm, 0,
                           MicronsPerMm, Y_MAX_POS * MicronsPerMm},
                 d \in -MaxMicrons..MaxMicrons }

\* one length converted to steps and back
roundTrip ==
    /\ \E a \in Axes, um \in KinValues :
          LET s == mmToStepsMicro(a, um)
          IN calc' = [op |-> "roundTrip", axis |-> a, mm |-> um, steps |-> s,
                      back |-> stepsToMmMicro(a, s)]
    /\ UNCHANGED <<motion, endstops>>
    /\ FirmwareIdle

NextKin == roundTrip

SpecKin == Init /\ [][NextKin]_vars

MaxDelta == 4

SquaredLength(d) == d.X * d.X + d.Y * d.Y + d.Z * d.Z

IsSquare(n) == \E r \in 0..(2 * MaxDelta) : r * r = n

sqrtf(n) == CHOOSE r \in 0..(2 * MaxDelta) : r * r = n

MoveVectors == { d \in [Axes -> -MaxDelta..MaxDelta] : IsSquare(SquaredLength(d)) }

Feeds == {600, 3000, 6000, 12000}

SpeedFactors == {50, 100, 200}

\* feedrate_mm_min * (speed_factor / 100.0), applied when the factor is not 100
EffectiveFeed(f, factor) ==
    IF factor # 100 THEN [num |-> f * factor, den |-> 100]
                    ELSE [num |-> f, den |-> 1]

\* min(vz, (float)MAX_VELOCITY_Z), both sides in mm/min
ClampZ(v) ==
    IF v.num > MAX_VELOCITY_Z * 60 * v.den
    THEN [num |-> MAX_VELOCITY_Z * 60, den |-> 1]
    ELSE v

\* vx, vy, vz of the G0/G1 handler
AxisSpeeds(f, factor, d) ==
    LET feed == EffectiveFeed(f, factor)
        total_dist == sqrtf(SquaredLength(d))
        share(a) == [num |-> feed.num * Abs(d[a]), den |-> feed.den * total_dist]
        v == IF total_dist > 0
             THEN [a \in Axes |-> share(a)]
             ELSE [a \in Axes |-> IF a = "Z"
                                  THEN [num |-> MAX_VELOCITY_Z * 60, den |-> 1]
                                  ELSE feed]
    IN [v EXCEPT !.Z = ClampZ(v.Z)]

\* A setMaxSpeed that seats every speed it is given, zero included.
SeatedAlways(speeds) == Axes

\* A setMaxSpeed that refuses negative speeds only.
SeatedNotNegative(speeds) == { a \in Axes : speeds[a].num >= 0 }

\* StepperControl::setMaxSpeed seats a speed only when it is above zero
Seated(speeds) == { a \in Axes : speeds[a].num > 0 }

\* the speeds one Move hands to the executor
moveSpeeds ==
    /\ \E f \in Feeds, factor \in SpeedFactors, d \in MoveVectors :
          LET v == AxisSpeeds(f, factor, d)
          IN calc' = [op |-> "setMaxSpeed", f |-> f, factor |-> factor, d |-> d,
                      speeds |-> v, seated |-> Seated(v)]
    /\ UNCHANGED <<motion, endstops>>
    /\ FirmwareIdle

NextFeed == moveSpeeds

SpecFeed == Init /\ [][NextFeed]_vars

(* ------------------------------------------------------------------ *)
(* C19: whatever the commanded feed F and the speed factor s are, no   *)
(* axis, X and Y included, is seated with a max speed above its        *)
(* configured maximum velocity: the speed handed to the executor for   *)
(* an axis is capped by min(maxVelocity of the axis, F x s / 100).     *)
(* ------------------------------------------------------------------ *)
C19_SpeedCap ==
    calc.op = "setMaxSpeed" =>
        \A a \in calc.seated :
            calc.speeds[a].num <= MaxVelocity(a) * 60 * calc.speeds[a].den

(* ------------------------------------------------------------------ *)
(* Two Home-all commands executed one after the other                  *)
(* ------------------------------------------------------------------ *)
HomeAll(c) == c.cmd.type = "G28" /\ c.cmd.home_all

\* this step executes a Home-all, and the command executed before it
\* was a Home-all too
SecondHomeAll ==
    /\ last'.line # last.line
    /\ HomeAll(last)
    /\ HomeAll(last')

SameOutcomes == \A a \in Axes : last'.homing[a] = last.homing[a]

\* C20 as stated: whatever the outcomes of the two sequences are, the
\* second Home-all leaves the logical position the first one left
C20_AsStated ==
    [][SecondHomeAll => last'.postPos = last.postPos]_vars

(* ------------------------------------------------------------------ *)
(* C20: from any starting state, two Home-all commands executed one    *)
(* after the other in which every axis has the same outcome (both      *)
(* succeed, or both fail) leave the same logical position after the    *)
(* second as after the first.                                          *)
(* ------------------------------------------------------------------ *)
C20_HomingIdempotence ==
    [][(SecondHomeAll /\ SameOutcomes) => last'.postPos = last.postPos]_vars

\* two Home-all commands ran back to back from a position away from the
\* home position, both succeeded on every axis
C20_Witness ==
    /\ HomeAll(last)
    /\ last.line >= 2
    /\ HomeAll([cmd |-> parse(sent[last.line - 1])])
    /\ AllHomingOk
    /\ last.prePos = last.postPos
    /\ last.postPos # [a \in Axes |-> 0]
    /\ ~last.preAbs

(* ------------------------------------------------------------------ *)
(* Output of one command                                               *)
(* ------------------------------------------------------------------ *)
\* the lines written for host line id
OutputOf(id) == SelectSeq(out, LAMBDA e : e.line = id)

\* the sequence ends with ok and holds no other ok
EndsWithOnlyOk(lines) ==
    /\ lines # <<>>
    /\ lines[Len(lines)].k = "ok"
    /\ \A i \in 1..(Len(lines) - 1) : lines[i].k # "ok"

(* ------------------------------------------------------------------ *)
(* C21: ok is the last line a command's execution emits: the data      *)
(* lines (M114, M115, the three of M119), the info lines and the error *)
(* lines of the command come before its ok and nothing that belongs to *)
(* the command follows it.  Stated for the command executed last       *)
(* (host or file) and, over the whole output, for every host line.     *)
(* ------------------------------------------------------------------ *)
C21_OkLast ==
    /\ last.tag # 0 => EndsWithOnlyOk(last.emitted)
    /\ \A id \in 1..Len(sent) :
          \A i \in 1..Len(OutputOf(id)) :
              OutputOf(id)[i].k = "ok" => i = Len(OutputOf(id))

\* M119 has been executed: three data lines, then ok
C21_Witness ==
    /\ last.cmd.type = "M119"
    /\ Len(last.emitted) = 4
    /\ \A i \in 1..3 : last.emitted[i].k = "data"
    /\ last.emitted[4].k = "ok"
    /\ OutputOf(last.line) = last.emitted

(* ------------------------------------------------------------------ *)
(* Homing of one axis, loop by loop.  Distances are counted in strides *)
(* of StrideMm millimetres, time in ticks of TickMs milliseconds; what *)
(* endstops.isTriggered returns is open at every read; moved is the    *)
(* change of the axis's step counter in the loop turn taken last.      *)
(* ------------------------------------------------------------------ *)
MaxRoutines == 1

StrideMm == 2

TickMs == 10000

HOMING_FEEDRATE_FAST == 20

HOMING_FEEDRATE_SLOW == 5

HOMING_BACKOFF_MM == 10

HOMING_TIMEOUT_S == 60

Strides(mm) == mm \div StrideMm

\* fast_rate / slow_rate of Homing::homeAxis: Z is capped
HomingRate(a, rate) ==
    IF a = "Z" /\ rate > MAX_VELOCITY_Z THEN MAX_VELOCITY_Z ELSE rate

\* max_travel_steps_for_stall
MaxTravelForStall(a) == Strides(MaxPos(a) * 2)

\* timeout_calc_ms of _moveAwayFromEndstop
BackoffTimeoutMs(distance_mm, speed_mm_s) ==
    (distance_mm * 1500) \div speed_mm_s + 500

Approaches == {"fast", "slow"}

Backoffs == {"preclear", "backoff"}

TimedOut(m) == m.elapsed * TickMs > m.timeout_ms

Still(m) == [m EXCEPT !.moved = 0, !.moved_in = m.phase]

\* how the phase in flight ended
Ended(m, end) == [phase |-> m.phase, end |-> end, budget |-> m.budget]

\* Homing::_moveUntilTriggered up to its loop: moveAxisBy(axis, -max_distance)
moveUntilTriggered(m, phase, max_distance) ==
    [m EXCEPT !.phase = phase, !.togo = -max_distance,
              !.budget = max_distance, !.elapsed = 0,
              !.maxSpeed[m.axis] =
                  MmPerMin(HomingRate(m.axis, IF phase = "fast"
                                              THEN HOMING_FEEDRATE_FAST
                                              ELSE HOMING_FEEDRATE_SLOW)),
              !.timeout_ms = HOMING_TIMEOUT_S * 1000]

\* Homing::_moveAwayFromEndstop up to its loop: moveAxisTo(axis, current + distance)
moveAwayFromEndstop(m, phase, distance_mm) ==
    [m EXCEPT !.phase = phase, !.togo = Strides(distance_mm),
              !.budget = Strides(distance_mm), !.elapsed = 0,
              !.maxSpeed[m.axis] =
                  MmPerMin(HomingRate(m.axis, HOMING_FEEDRATE_FAST)),
              !.timeout_ms = BackoffTimeoutMs(distance_mm,
                                 HomingRate(m.axis, HOMING_FEEDRATE_FAST))]

\* a phase returned false: _singleAxisHomingSequence returns false and
\* homeAxis reports error 5
homingFailed(m, why, reported) ==
    [m EXCEPT !.trail = Append(m.trail, Ended(m, why)),
              !.phase = "idle", !.togo = 0,
              !.result = "fail", !.errors = reported + 1,
              !.moved = 0, !.moved_in = m.phase]

\* the sequence returned true; Z is then sent to Z_HOME_POSITION
homingSucceeded(m) ==
    IF m.axis = "Z"
    THEN [m EXCEPT !.phase = "park", !.togo = Strides(Z_HOME_POSITION),
                   !.maxSpeed.Z = MmPerMin(MAX_VELOCITY_Z)]
    ELSE [m EXCEPT !.phase = "idle", !.togo = 0, !.result = "ok"]

\* Homing::homeAxis up to the first loop of _singleAxisHomingSequence
homeAxisBegin ==
    /\ motion.phase = "idle"
    /\ motion.started < MaxRoutines
    /\ \E a \in Axes, triggered \in BOOLEAN :
          LET m == [NoMotion EXCEPT !.axis = a, !.pre_triggered = triggered,
                                    !.started = motion.started + 1,
                                    !.maxSpeed = motion.maxSpeed]
          IN motion' = IF triggered
                       THEN moveAwayFromEndstop(m, "preclear", HOMING_BACKOFF_MM * 2)
                       ELSE moveUntilTriggered(m, "fast", MaxTravelForStall(a))
    /\ UNCHANGED <<calc, endstops>>
    /\ FirmwareIdle

\* a turn of either loop in which only the clock advances
loopTick ==
    /\ motion.phase \in Approaches \cup Backoffs
    /\ ~TimedOut(motion)
    /\ motion' = [Still(motion) EXCEPT !.elapsed = motion.elapsed + 1]
    /\ UNCHANGED <<calc, endstops>>
    /\ FirmwareIdle

\* _moveUntilTriggered: the endstop reads triggered; stopAxisImmediate
approachTriggered ==
    /\ motion.phase \in Approaches
    /\ LET m == [Still(motion) EXCEPT
                    !.togo = 0,
                    !.trail = Append(motion.trail, Ended(motion, "triggered"))]
       IN motion' = IF motion.phase = "fast"
                    THEN moveAwayFromEndstop(m, "backoff", HOMING_BACKOFF_MM)
                    ELSE homingSucceeded(m)
    /\ UNCHANGED <<calc, endstops>>
    /\ FirmwareIdle

\* _moveUntilTriggered: not triggered and the time is up
approachTimeout ==
    /\ motion.phase \in Approaches
    /\ TimedOut(motion)
    /\ motion' = homingFailed(motion, "timeout", 0)
    /\ UNCHANGED <<calc, endstops>>
    /\ FirmwareIdle

\* _moveUntilTriggered: not triggered, runAxis makes a step; at the end
\* of the travel the phase fails (stall)
approachStep ==
    /\ motion.phase \in Approaches
    /\ ~TimedOut(motion)
    /\ LET m == [motion EXCEPT !.togo = motion.togo + 1,
                               !.moved = -1, !.moved_in = motion.phase]
       IN motion' = IF m.togo = 0
                    THEN [homingFailed(m, "stall", 0) EXCEPT !.moved = -1]
                    ELSE m
    /\ UNCHANGED <<calc, endstops>>
    /\ FirmwareIdle

\* _moveAwayFromEndstop: the axis is running, the time is up
backoffTimeout ==
    /\ motion.phase \in Backoffs
    /\ motion.togo # 0
    /\ TimedOut(motion)
    /\ motion' = homingFailed(motion, "timeout", 0)
    /\ UNCHANGED <<calc, endstops>>
    /\ FirmwareIdle

\* _moveAwayFromEndstop: runAxis makes a step
backoffStep ==
    /\ motion.phase \in Backoffs
    /\ motion.togo # 0
    /\ ~TimedOut(motion)
    /\ motion' = [motion EXCEPT !.togo = motion.togo - 1,
                                !.moved = 1, !.moved_in = motion.phase]
    /\ UNCHANGED <<calc, endstops>>
    /\ FirmwareIdle

\* A backoff that goes on to the next phase without reading the endstop.
backoffCompleteUnchecked ==
    /\ motion.phase \in Backoffs
    /\ motion.togo = 0
    /\ \E triggered \in BOOLEAN :
          LET m == [Still(motion) EXCEPT
                       !.trail = Append(motion.trail,
                                        Ended(motion, IF triggered THEN "triggered"
                                                      ELSE "open"))]
          IN motion' =
                IF motion.phase = "preclear"
                THEN moveUntilTriggered(m, "fast", MaxTravelForStall(motion.axis))
                ELSE moveUntilTriggered(m, "slow", Strides(HOMING_BACKOFF_MM * 4))
    /\ UNCHANGED <<calc, endstops>>
    /\ FirmwareIdle

\* _moveAwayFromEndstop returned true; the endstop is read again
backoffComplete ==
    /\ motion.phase \in Backoffs
    /\ motion.togo = 0
    /\ \E triggered \in BOOLEAN :
          LET m == [Still(motion) EXCEPT
                       !.trail = Append(motion.trail,
                                        Ended(motion, IF triggered THEN "triggered"
                                                      ELSE "open"))]
          IN motion' =
                IF triggered
                THEN [homingFailed(motion, "triggered", 1) EXCEPT !.trail = m.trail]
                ELSE IF motion.phase = "preclear"
                THEN moveUntilTriggered(m, "fast", MaxTravelForStall(motion.axis))
                ELSE moveUntilTriggered(m, "slow", Strides(HOMING_BACKOFF_MM * 4))
    /\ UNCHANGED <<calc, endstops>>
    /\ FirmwareIdle

\* Homing::homeAxis: Z runs to Z_HOME_POSITION
parkStep ==
    /\ motion.phase = "park"
    /\ LET m == [motion EXCEPT !.togo = motion.togo - 1,
                               !.moved = 1, !.moved_in = "park"]
       IN motion' = IF m.togo = 0
                    THEN [m EXCEPT !.phase = "idle", !.result = "ok"]
                    ELSE m
    /\ UNCHANGED <<calc, endstops>>
    /\ FirmwareIdle

(* ------------------------------------------------------------------ *)
(* The executor loop of a Move, loop by loop: dist is the distance     *)
(* each channel still has to go, maxSpeed what is seated on it.        *)
(* ------------------------------------------------------------------ *)
RunVectors == { d \in MoveVectors : \A a \in Axes : Abs(d[a]) <= 2 }

RunFeeds == {-600, 0, 6000}

RunFactors == {100}

\* the Z counter may stand off the logical position (operator panel)
Skews == {0, 1}

\* StepperControl::setMaxSpeed
setMaxSpeed(old, speeds) ==
    [a \in Axes |-> IF a \in Seated(speeds) THEN speeds[a] ELSE old[a]]

\* the speed runBlocking seats on a channel that has distance to go: the
\* target speed on the dominant channel, maxSpeed * ratio on the others,
\* with ratio at least 0.05
HasSpeed(m, a) == m.maxSpeed[a].num > 0

RunDone(m) == \A a \in Axes : m.dist[a] = 0

\* G0/G1 handler from the speed computation to the loop of runBlocking
runBlockingBegin ==
    /\ motion.phase = "idle"
    /\ motion.started < MaxRoutines
    /\ \E f \in RunFeeds, factor \in RunFactors, d \in RunVectors,
          skew \in Skews :
          LET dist == [a \in Axes |-> Abs(d[a]) + IF a = "Z" THEN skew ELSE 0]
              m == [NoMotion EXCEPT
                       !.started = motion.started + 1,
                       !.maxSpeed = setMaxSpeed(motion.maxSpeed,
                                                AxisSpeeds(f, factor, d)),
                       !.dist = dist,
                       !.budget = dist.X + dist.Y + dist.Z]
          IN motion' = IF RunDone(m)
                       THEN [m EXCEPT !.result = "ok"]
                       ELSE [m EXCEPT !.phase = "run"]
    /\ UNCHANGED <<calc, endstops>>
    /\ FirmwareIdle

\* one channel makes a step; the loop ends when no channel has distance
\* to go
runSpeedToPosition ==
    /\ motion.phase = "run"
    /\ \E a \in Axes :
          /\ motion.dist[a] > 0
          /\ HasSpeed(motion, a)
          /\ LET m == [motion EXCEPT !.dist[a] = motion.dist[a] - 1,
                                     !.moved = 1, !.moved_in = "run"]
             IN motion' = IF RunDone(m)
                          THEN [m EXCEPT !.phase = "idle", !.result = "ok",
                                         !.trail = <<Ended(motion, "complete")>>]
                          ELSE m
    /\ UNCHANGED <<calc, endstops>>
    /\ FirmwareIdle

NextHoming ==
    \/ homeAxisBegin
    \/ loopTick
    \/ approachTriggered
    \/ approachTimeout
    \/ approachStep
    \/ backoffTimeout
    \/ backoffStep
    \/ backoffComplete
    \/ parkStep

SpecHoming == Init /\ [][NextHoming]_vars

\* homing and moves
NextBlocking ==
    \/ NextHoming
    \/ runBlockingBegin
    \/ runSpeedToPosition

\* millis() advances and the loops keep turning
BlockingFairness ==
    /\ WF_vars(loopTick)
    /\ WF_vars(approachTimeout)
    /\ WF_vars(backoffTimeout)
    /\ WF_vars(backoffComplete)
    /\ WF_vars(parkStep)
    /\ WF_vars(runSpeedToPosition)

SpecBlocking == Init /\ [][NextBlocking]_vars /\ BlockingFairness

(* ------------------------------------------------------------------ *)
(* C23: in the fast and the slow approach of homing axis A the step    *)
(* counter moves in the direction homeDir[A], in the pre-clear and     *)
(* the backoff it moves in the opposite direction, for each axis with  *)
(* its own configured home direction.                                  *)
(* ------------------------------------------------------------------ *)
C23_HomingDirection ==
    (motion.moved # 0 /\ motion.moved_in \in Approaches \cup Backoffs) =>
        motion.moved = IF motion.moved_in \in Approaches
                       THEN HomeDir(motion.axis)
                       ELSE -HomeDir(motion.axis)

(* ------------------------------------------------------------------ *)
(* The phases of a homing that succeeds                                *)
(* ------------------------------------------------------------------ *)
PhaseRun(phase, end, distance) == [phase |-> phase, end |-> end, budget |-> distance]

CorePhases(a) ==
    << PhaseRun("fast", "triggered", MaxTravelForStall(a)),
       PhaseRun("backoff", "open", Strides(HOMING_BACKOFF_MM)),
       PhaseRun("slow", "triggered", Strides(HOMING_BACKOFF_MM * 4)) >>

\* pre-clear runs only when the endstop read triggered at the start
SuccessfulPhases(a, pre_triggered) ==
    IF pre_triggered
    THEN <<PhaseRun("preclear", "open", Strides(HOMING_BACKOFF_MM * 2))>>
            \o CorePhases(a)
    ELSE CorePhases(a)

IsPrefix(p, q) == Len(p) <= Len(q) /\ SubSeq(q, 1, Len(p)) = p

(* ------------------------------------------------------------------ *)
(* C24: homing of an axis reports success only if, in this order, the  *)
(* pre-clear (run only when the endstop read triggered at the start:   *)
(* 2x the backoff distance, then the endstop reads open), the fast     *)
(* approach ended with the endstop read triggered, the backoff by the  *)
(* backoff distance completed and the endstop then read open, and the  *)
(* slow approach (budget 4x backoff) ended triggered.  When a phase    *)
(* fails, the phases before it are the successful ones in order, no    *)
(* later phase runs, nothing is left to run on the axis, and error 5   *)
(* is reported.                                                        *)
(* ------------------------------------------------------------------ *)
C24_PhaseOrder ==
    LET good == SuccessfulPhases(motion.axis, motion.pre_triggered)
        n == Len(motion.trail)
    IN /\ (motion.result = "ok" \/ motion.phase = "park") =>
             motion.trail = good /\ motion.errors = 0
       /\ motion.result = "fail" =>
             /\ n >= 1
             /\ IsPrefix(SubSeq(motion.trail, 1, n - 1), good)
             /\ n <= Len(good)
             /\ motion.trail[n].phase = good[n].phase
             /\ motion.trail[n] # good[n]
             /\ motion.phase = "idle"
             /\ motion.togo = 0
             /\ motion.errors >= 1
       /\ motion.phase \in Approaches \cup Backoffs =>
             /\ IsPrefix(motion.trail, good)
             /\ motion.phase = good[Len(motion.trail) + 1].phase

\* Z was homed from a triggered endstop: all four phases, then the park
C24_Witness ==
    /\ motion.result = "ok"
    /\ motion.axis = "Z"
    /\ motion.pre_triggered
    /\ Len(motion.trail) = 4

(* ------------------------------------------------------------------ *)
(* C22: every blocking routine a command runs comes to an end,         *)
(* whatever the endstops read: each approach ends by trigger, stall or *)
(* timeout, each backoff by completion or timeout, and the executor    *)
(* loop of a Move ends because every channel with distance to go has a *)
(* nonzero speed seated, so that the handler reaches its ok.           *)
(* ------------------------------------------------------------------ *)
C22_Terminates ==
    (motion.phase # "idle") ~> (motion.phase = "idle" /\ motion.result # "none")

\* a Move with feed 0 that ran all three channels has ended: the speeds
\* seated before it were kept
C22_Witness ==
    /\ motion.phase = "idle"
    /\ motion.result = "ok"
    /\ motion.trail = <<[phase |-> "run", end |-> "complete", budget |-> 6]>>
    /\ motion.maxSpeed.X = MmPerMin(MAX_VELOCITY_XY)


(* ------------------------------------------------------------------ *)
(* Home-all: the order of the axes and the report                      *)
(* ------------------------------------------------------------------ *)
Announcements(lines) ==
    SelectSeq(lines, LAMBDA e : e.k = "info" /\ e.m \in
                 {"Homing X axis...", "Homing Y axis...", "Homing Z axis..."})

Count(lines, Test(_)) == Len(SelectSeq(lines, Test))

IsErr5(e) == e.k = "error" /\ e.c = ERR_HOMING_FAILED

IsOk(e) == e.k = "ok"

IsComplete(e) == e.k = "info" /\ e.m = "Homing complete."

AllSucceeded(c) == \A a \in Axes : c.homing[a] = "ok"

(* ------------------------------------------------------------------ *)
(* C25: a Home-all homes Z first, then X, then Y, and attempts X and Y *)
(* also after a failure; after the command each axis's homed flag is   *)
(* that axis's own result; the command reports success exactly when    *)
(* all three succeeded and error 5 otherwise; it writes one ok.        *)
(* ------------------------------------------------------------------ *)
C25_HomeAllOrder ==
    HomeAll(last) =>
        /\ Announcements(last.emitted) =
              <<Info("Homing Z axis...", last.line),
                Info("Homing X axis...", last.line),
                Info("Homing Y axis...", last.line)>>
        /\ \A a \in Axes : last.homing[a] \in {"ok", "fail"}
        /\ \A a \in Axes : last.postHomed[a] = (last.homing[a] = "ok")
        /\ (Count(last.emitted, IsComplete) = 1) = AllSucceeded(last)
        /\ (Count(last.emitted, IsErr5) > 0) = ~AllSucceeded(last)
        /\ Count(last.emitted, IsOk) = 1
        /\ Count(OutputOf(last.line), IsOk) = 1

\* a Home-all in which Z failed and X and Y succeeded
C25_Witness ==
    /\ HomeAll(last)
    /\ last.homing = [X |-> "ok", Y |-> "ok", Z |-> "fail"]
    /\ last.postHomed = [X |-> TRUE, Y |-> TRUE, Z |-> FALSE]
    /\ Count(last.emitted, IsErr5) > 0
    /\ last.emitted[Len(last.emitted)] = Ok(last.line)

(* ------------------------------------------------------------------ *)
(* A jog stopped by an endstop                                         *)
(* ------------------------------------------------------------------ *)
\* the executed move was stopped by the endstop of axis a
AbortedBy(a) == last.cmd.type \in {"G0", "G1"} /\ last.hit = a

\* where the steppers of the executed move were at stop point k, in mm
LastStopped(k) ==
    [b \in Axes |->
        LET from == StepsToMmAxis(b, last.preSteps[b])
        IN IF k = "start" THEN from
           ELSE from + ((LastTarget[b] - from) \div 2)]

JogAbortOutcome(a) ==
    AbortedBy(a) =>
        /\ ~last.preAbs
        /\ JogCheck(last.cmd)[a]
        /\ \E i \in 1..Len(last.emitted) :
              last.emitted[i] = EndstopHit(a, last.line)
        /\ last.homing[a] \in {"ok", "fail"}
        /\ last.postPos[a] = HomeEndpoint(a)
        /\ \E k \in StopPoints :
              \A b \in Axes \ {a} : last.postPos[b] = LastStopped(k)[b]
        /\ last.postSteps = MmToSteps(last.postPos)

(* ------------------------------------------------------------------ *)
(* C26: the endstop guard of a jog acts only in relative mode and      *)
(* only on an axis whose offset has the sign of its home direction;    *)
(* when the endstop of axis A (X, Y or Z) stops a jog, the firmware    *)
(* names A, homes A, leaves A's logical position at A's home endpoint  *)
(* (the maximum if A homes to +1, otherwise 0) and the other axes      *)
(* where their steppers stopped, with the counters equal to the        *)
(* logical position.                                                   *)
(* ------------------------------------------------------------------ *)
C26_JogAbortOutcome == \A a \in Axes : JogAbortOutcome(a)

(* ------------------------------------------------------------------ *)
(* Travel time of the axes of one Move                                 *)
(* ------------------------------------------------------------------ *)
\* the axes that travel in the Move whose speeds were seated last
Travelling == { a \in Axes : calc.d[a] # 0 }

RECURSIVE Gcd(_, _)
Gcd(m, n) == IF n = 0 THEN m ELSE Gcd(n, m % n)

\* a speed in lowest terms
Lowest(v) ==
    LET g == Gcd(v.num, v.den)
    IN [num |-> v.num \div g, den |-> v.den \div g]

\* |d[a]| / speeds[a] = |d[b]| / speeds[b]: runBlocking drives every
\* channel at its seated max speed times one common ratio
SameTravelTime(a, b) ==
    LET va == Lowest(calc.speeds[a])
        vb == Lowest(calc.speeds[b])
    IN Abs(calc.d[a]) * va.den * vb.num = Abs(calc.d[b]) * vb.den * va.num

ZCapped ==
    LET feed == EffectiveFeed(calc.f, calc.factor)
        share == Lowest([num |-> feed.num * Abs(calc.d.Z),
                         den |-> feed.den * sqrtf(SquaredLength(calc.d))])
    IN calc.d # [a \in Axes |-> 0] /\ share.num > MAX_VELOCITY_Z * 60 * share.den

(* ------------------------------------------------------------------ *)
(* C27: in a Move in which two or more axes travel, all travelling     *)
(* axes need the same time at the speeds seated on their channels, for *)
(* every combination of axes, moves with Z included.                   *)
(* ------------------------------------------------------------------ *)
C27_SimultaneousArrival ==
    calc.op = "setMaxSpeed" =>
        \A a, b \in Travelling \cap calc.seated : SameTravelTime(a, b)

(* ------------------------------------------------------------------ *)
(* Idle timeout of the steppers                                        *)
(* ------------------------------------------------------------------ *)
\* the idle check of this pass disables the steppers
AutoDisable == idleCheck /\ ~steppers_disabled /\ steppers_disabled'

\* this step is the idle check of a pass
IdlePass == pc = "idle" /\ pc' = "sd"

\* this step executes an M84
M84Step == last'.line # last.line /\ last'.cmd.type = "M84"

\* what M84 leaves, by its S parameter
M84Outcome ==
    M84Step =>
        /\ steppers_disabled'
        /\ (last'.cmd.has_s /\ last'.cmd.s_val > 0)
              => stepper_disable_timeout_ms' = last'.cmd.s_val * 1000
        /\ (last'.cmd.has_s /\ last'.cmd.s_val = 0)
              => stepper_disable_timeout_ms' = 0
        /\ ~last'.cmd.has_s
              => stepper_disable_timeout_ms' = DISABLE_STEPPERS_AFTER_IDLE_S * 1000

Executes(types) == last'.tag # last.tag /\ last'.cmd.type \in types

\* the tags of the commands in the queue
QueueTags(q) ==
    { q.buffer[(q.head + i) % GCODE_BUFFER_SIZE].tag : i \in 0..(q.count - 1) }

StopOutcome ==
    Executes({"M0", "M410"}) =>
        /\ isEmpty(gcodeBuffer')
        /\ steppers_disabled'
        /\ last'.emitted[Len(last'.emitted)] = Ok(last'.line)
        /\ Len(SelectSeq(last'.emitted, IsOk)) = 1
        /\ (last'.cmd.type = "M0" /\ sd_exec_state \in {"RUNNING", "PAUSED"})
              => (sd_exec_state' = "DONE" /\ sd_file' = <<>>)
        \* nothing queued ahead of it was left in the queue
        /\ \A t \in QueueTags(gcodeBuffer) : t >= last'.tag

\* entries leave the queue one by one, except in a Stop or QuickStop
StopOnlyWhenPopped ==
    gcodeBuffer'.count < gcodeBuffer.count - 1 => Executes({"M0", "M410"})

\* a Move that runs while a Stop or QuickStop waits in the queue behind
\* it is carried out as if none was there
MotionNotInterrupted ==
    (/\ Executes({"G0", "G1"})
     /\ \E i \in 0..(gcodeBuffer.count - 1) :
           gcodeBuffer.buffer[(gcodeBuffer.head + i) % GCODE_BUFFER_SIZE]
               .cmd.type \in {"M0", "M410"}
     /\ last'.hit = "none"
     /\ Len(SelectSeq(last'.emitted, LAMBDA e : e.k = "error")) = 0)
        => (current_position_mm' = MoveTarget(Popped.cmd)
              /\ gcodeBuffer'.count = gcodeBuffer.count - 1)

(* ------------------------------------------------------------------ *)
(* C29: when the handler of Stop (M0) or QuickStop (M410) writes its   *)
(* ok the queue is empty and the steppers are disabled; Stop also ends *)
(* a running or paused file execution and closes the file.  Each acts  *)
(* only when it is popped, after the commands queued ahead of it, and  *)
(* a move that runs while it waits is not interrupted.                 *)
(* ------------------------------------------------------------------ *)
C29_StopActsOnQueue ==
    [][StopOutcome /\ StopOnlyWhenPopped /\ MotionNotInterrupted]_vars

\* Stop was executed with commands behind it in the queue while a file
\* was running or paused; the execution is done and the file closed
C29_Witness ==
    /\ last.cmd.type = "M0"
    /\ last.preCount > 1
    /\ isEmpty(gcodeBuffer)
    /\ steppers_disabled
    /\ sd_exec_state = "DONE"
    /\ sd_file = <<>>
    /\ ui = 1

(* ------------------------------------------------------------------ *)
(* The file feeder                                                     *)
(* ------------------------------------------------------------------ *)
\* this step is the file feeder of a pass
FeedPass == pc = "sd" /\ pc' = "dispatch"

Newest(q) == q.buffer[(q.tail + GCODE_BUFFER_SIZE - 1) % GCODE_BUFFER_SIZE]

FeederReads ==
    FeedPass =>
        IF sd_exec_state = "RUNNING" /\ ~isFull(gcodeBuffer)
        THEN IF sd_file # <<>>
             THEN /\ sd_file' = Tail(sd_file)
                  /\ sd_exec_state' = "RUNNING"
                  /\ parse(Head(sd_file)).type # "UNKNOWN"
                        => (/\ gcodeBuffer'.count = gcodeBuffer.count + 1
                            /\ Newest(gcodeBuffer').cmd = parse(Head(sd_file)))
             ELSE sd_exec_state' = "DONE" /\ sd_file' = <<>>
        ELSE UNCHANGED <<sd_exec_state, sd_file, gcodeBuffer>>

PauseResume ==
    /\ Executes({"M25"}) =>
          sd_exec_state' = IF sd_exec_state = "RUNNING" THEN "PAUSED"
                           ELSE sd_exec_state
    /\ Executes({"M24"}) =>
          sd_exec_state' = IF sd_exec_state = "PAUSED" THEN "RUNNING"
                           ELSE sd_exec_state
    /\ Executes({"M24", "M25"}) => UNCHANGED <<sd_file, steppers_disabled>>

(* ------------------------------------------------------------------ *)
(* C30: the file feeder reads a line only while the execution state is *)
(* RUNNING and the queue is not full, one line per pass, and the line  *)
(* it parsed is in the queue afterwards; M25 moves RUNNING to PAUSED   *)
(* and M24 moves PAUSED to RUNNING, and each changes nothing in any    *)
(* other state; while PAUSED no line is read; at the end of the file   *)
(* the state becomes DONE and the file is closed.                      *)
(* ------------------------------------------------------------------ *)
C30_FileReaderState == [][FeederReads /\ PauseResume]_vars

\* the file is running, the queue is full, and the feeder of this pass
\* has left the first line of the file unread
C30_Witness ==
    /\ sd_exec_state = "RUNNING"
    /\ isFull(gcodeBuffer)
    /\ sd_file = SdFile
    /\ pc = "dispatch"

(* ------------------------------------------------------------------ *)
(* C31: setMaxSpeed leaves the max speed of an axis as it was when the *)
(* requested value is zero or below, so after any sequence of homing   *)
(* routines and moves (F0, a negative F and axes that do not travel    *)
(* included) every channel's max speed is above zero, and so is the    *)
(* dominant max speed the executor divides by.                         *)
(* ------------------------------------------------------------------ *)
C31_ZeroSpeedRefused ==
    /\ \A a \in Axes : motion.maxSpeed[a].num > 0 /\ motion.maxSpeed[a].den > 0
    /\ motion.phase = "run" =>
          \A a \in Axes : motion.dist[a] > 0 => HasSpeed(motion, a)

\* a move in which all three axes travel has run to its end with every
\* max speed as it was seated at start-up: its feed was zero or negative
C31_Witness ==
    /\ motion.phase = "idle"
    /\ motion.result = "ok"
    /\ motion.trail = <<[phase |-> "run", end |-> "complete", budget |-> 5]>>
    /\ motion.maxSpeed = [a \in Axes |-> MmPerMin(MaxVelocity(a))]

(* ------------------------------------------------------------------ *)
(* Rounding of the conversion to steps                                 *)
(* ------------------------------------------------------------------ *)
\* n / d rounded to the nearest integer, halves away from zero
Round(n, d) ==
    IF n >= 0 THEN (2 * n + d) \div (2 * d)
              ELSE -((2 * (-n) + d) \div (2 * d))

(* ------------------------------------------------------------------ *)
(* C32: for every axis, mmToSteps(axis, mm) is mm x stepsPerMm[axis]   *)
(* rounded to the nearest integer, for positive and for negative mm.   *)
(* ------------------------------------------------------------------ *)
C32_Rounding ==
    calc.op = "roundTrip" =>
        calc.steps = Round(calc.mm * StepsPerMm(calc.axis), MicronsPerMm)

(* ------------------------------------------------------------------ *)
(* Order of the ok lines                                               *)
(* ------------------------------------------------------------------ *)
\* the ok lines written so far for lines of the host, oldest first
HostOks == SelectSeq(out, LAMBDA e : e.k = "ok" /\ e.line > 0)

(* ------------------------------------------------------------------ *)
(* C33: the ok lines are written in the order in which their lines     *)
(* were received: if line A was received before line B, the ok of A    *)
(* comes before the ok of B, also when the line assembler answers B    *)
(* itself while A waits in the queue.                                  *)
(* ------------------------------------------------------------------ *)
C33_OkOrder ==
    \A i, j \in 1..Len(HostOks) : i < j => HostOks[i].line < HostOks[j].line

(* ------------------------------------------------------------------ *)
(* Motion after QuickStop                                              *)
(* ------------------------------------------------------------------ *)
\* the command executed last was a QuickStop of the host and the host
\* has sent nothing since
QuickStopStands ==
    /\ last.cmd.type = "M410"
    /\ last.line > 0
    /\ Len(sent) = last.line

(* ------------------------------------------------------------------ *)
(* C34: after QuickStop (M410) has written its ok, no Move and no Home *)
(* drives the steppers until the host sends a new line; a file that    *)
(* was running is not fed and executed further.                        *)
(* ------------------------------------------------------------------ *)
C34_NoMotionAfterQuickStop ==
    [][~(QuickStopStands /\ Executes({"G0", "G1", "G28"}) /\ last'.pulsed)]_vars

(* ------------------------------------------------------------------ *)
(* C35  No spurious jog abort                                          *)
(* ------------------------------------------------------------------ *)
\* C35: a guarded relative jog is aborted, and its axis named for
\* auto-homing, only if the raw state of the guarded endstop was triggered
\* at some time during that move; a debounced value left over from an
\* earlier query never aborts the jog.
C35_NoSpuriousAbort ==
    endstops.jog = "stopped" => endstops.rawDuring

(* ------------------------------------------------------------------ *)
(* C36  Homed axis tracks its pulses                                   *)
(* ------------------------------------------------------------------ *)
\* pulses testMotorDirect puts on the step pin for one M999
MotorTestPulses == 800

Accounted(a) ==
    \/ steps'[a] - steps[a] = MotorTestPulses
    \/ steps[a] - steps'[a] = MotorTestPulses

\* C36: after DiagnosticMotor (M999), which emits 800 raw pulses on the
\* named axis, either the step counter of that axis accounts for the
\* pulses or the axis is no longer marked homed.
C36_HomedTracksPulses ==
    [][(Executes({"M999"}) /\ last'.pulsed) =>
          LET a == last'.cmd.axis
          IN Accounted(a) \/ ~homed'[a]]_vars

(* ------------------------------------------------------------------ *)
(* C37  Homed flags change only by homing                              *)
(* ------------------------------------------------------------------ *)
\* the step ran a homing sequence for axis a (G28, or the auto-home of an
\* aborted jog)
HomingRan(a) == last'.tag # last.tag /\ last'.homing[a] # "none"

HomedFrame == \A a \in Axes : homed'[a] # homed[a] => HomingRan(a)

\* an absolute move that names only homed axes, executed with the motors
\* released, is not refused for want of homing
MoveAfterRelease ==
    (/\ Executes({"G0", "G1"})
     /\ absolute_mode
     /\ steppers_disabled
     /\ ~NamesUnhomedAxis(last'.cmd))
        => \A i \in 1..Len(last'.emitted) :
              last'.emitted[i].c # ERR_NOT_HOMED

\* C37: an axis's homed flag changes only in a step that runs a homing
\* sequence for that axis; M84, the idle timeout, M0, M410, G92, G90/G91
\* and rejected or completed moves change no homed flag, and an absolute
\* move naming a homed axis is still accepted after the motors have been
\* released.
C37_HomedOnlyByHoming == [][HomedFrame /\ MoveAfterRelease]_vars

\* X was homed by G28 X and M84 S0 then released the motors: X is still
\* marked homed
C37_Witness ==
    /\ last.cmd.type = "M84"
    /\ last.line = 2
    /\ steppers_disabled
    /\ last.preHomed.X
    /\ homed.X

(* ------------------------------------------------------------------ *)
(* Feed rate over a sequence of moves.  calc holds the machine-state   *)
(* feed rate, the speed factor and what the last Move ran at.          *)
(* ------------------------------------------------------------------ *)
\* moves of one sequence
MaxFeedMoves == 3

\* Faulty: the F word of a Move is remembered for the moves after it.
FeedKeptModal(current, has_f, f_val) == IF has_f THEN f_val ELSE current

\* current_feedrate_mm_min after a Move: the handler works on a local copy
FeedKept(current, has_f, f_val) == current

\* setup(): current_feedrate_mm_min = MAX_VELOCITY_XY * 60
setupFeed ==
    /\ calc = NoCalc
    /\ calc' = [op |-> "setup", current_feedrate_mm_min |-> MAX_VELOCITY_XY * 60,
                speed_factor |-> 100, moves |-> 0,
                has_f |-> FALSE, f_val |-> 0,
                feed |-> [num |-> 0, den |-> 1],
                earlier_has_f |-> FALSE, earlier_f |-> 0]
    /\ UNCHANGED <<motion, endstops>>
    /\ FirmwareIdle

\* M220 S<percent> between two moves
feedFactor ==
    /\ calc.op \in {"setup", "move", "factor"}
    /\ \E factor \in SpeedFactors :
          /\ factor # calc.speed_factor
          /\ calc' = [calc EXCEPT !.op = "factor", !.speed_factor = factor]
    /\ UNCHANGED <<motion, endstops>>
    /\ FirmwareIdle

\* case GCODE_G0 / GCODE_G1: the feed rate the move runs at
moveFeed ==
    /\ calc.op \in {"setup", "move", "factor"}
    /\ calc.moves < MaxFeedMoves
    /\ \E has_f \in BOOLEAN, f \in Feeds :
          LET f_val == IF has_f THEN f ELSE 0
              feedrate_mm_min == IF has_f THEN f_val
                                 ELSE calc.current_feedrate_mm_min
          IN calc' = [calc EXCEPT
                         !.op = "move",
                         !.moves = calc.moves + 1,
                         !.current_feedrate_mm_min =
                             FeedKept(calc.current_feedrate_mm_min, has_f, f_val),
                         !.has_f = has_f,
                         !.f_val = f_val,
                         !.feed = EffectiveFeed(feedrate_mm_min, calc.speed_factor),
                         !.earlier_has_f = calc.has_f,
                         !.earlier_f = calc.f_val]
    /\ UNCHANGED <<motion, endstops>>
    /\ FirmwareIdle

NextModal ==
    \/ setupFeed
    \/ feedFactor
    \/ moveFeed

SpecModal == Init /\ [][NextModal]_vars

(* ------------------------------------------------------------------ *)
(* C38  Feed rate is not modal                                         *)
(* ------------------------------------------------------------------ *)
\* C38: the F word of a Move applies to that move only: the machine-state
\* feed rate keeps its initial value (max XY velocity x 60) after any
\* sequence of commands, and a Move without F runs at that value scaled
\* by the speed factor, not at the F of an earlier Move.
C38_FeedNotModal ==
    calc.op \in {"setup", "move", "factor"} =>
        /\ calc.current_feedrate_mm_min = MAX_VELOCITY_XY * 60
        /\ (calc.op = "move" /\ ~calc.has_f) =>
               calc.feed = EffectiveFeed(MAX_VELOCITY_XY * 60, calc.speed_factor)

\* a Move without F executed at half speed right after a Move with F600
C38_Witness ==
    /\ calc.op = "move"
    /\ ~calc.has_f
    /\ calc.earlier_has_f
    /\ calc.earlier_f = 600
    /\ calc.speed_factor = 50
    /\ calc.feed = [num |-> 300000, den |-> 100]

(* ------------------------------------------------------------------ *)
(* Reading the file being executed, character by character.  calc      *)
(* holds the unread text, the number of the file line the next read    *)
(* starts on, and what was queued from which file line.                *)
(* ------------------------------------------------------------------ *)
\* longest comment padding of a file line
MaxPad == 58

PadLengths == (GCODE_MAX_LENGTH - 14)..MaxPad

\* files of two lines: a command followed by a comment that ends with the
\* word G28, then a short command
SdTexts ==
    { head \o <<" ", ";">> \o Pad(n, "-") \o <<"G", "2", "8", "\n">>
           \o second \o <<"\n">> :
        head \in { <<"G", "0", " ", "X", "1">>, <<"G", "9", "1">>,
                   <<"M", "1", "1", "4">> },
        n \in PadLengths,
        second \in { <<"M", "8", "4">>, <<"G", "9", "0">> } }

\* SDCardManager::readLine: characters up to the line feed, carriage
\* returns dropped, at most bufSize - 1 of them
readLine(file, bufSize) ==
    LET cut == strchr(file, "\n")
        line_end == IF cut = 0 THEN Len(file) ELSE cut - 1
        NotCr(c) == c # "\r"
        kept(i) == Len(SelectSeq(SubSeq(file, 1, i), NotCr))
        full == kept(line_end) >= bufSize - 1
        stop == IF full
                THEN CHOOSE i \in 0..line_end :
                        /\ kept(i) = bufSize - 1
                        /\ \A j \in 0..(i - 1) : kept(j) < bufSize - 1
                ELSE line_end
        buffer == SelectSeq(SubSeq(file, 1, stop), NotCr)
    IN IF full
       THEN [ok |-> TRUE, buffer |-> buffer,
             rest |-> SubSeq(file, stop + 1, Len(file)), newlines |-> 0]
       ELSE IF cut # 0
       THEN [ok |-> TRUE, buffer |-> buffer,
             rest |-> SubSeq(file, cut + 1, Len(file)), newlines |-> 1]
       ELSE [ok |-> buffer # <<>>, buffer |-> buffer, rest |-> <<>>,
             newlines |-> 0]

\* sdCard.readLine(lineBuf, GCODE_MAX_LENGTH)
sdReadLine(file, bufSize) == readLine(file, bufSize)

\* the file is opened and its execution started
sdOpen ==
    /\ calc = NoCalc
    /\ \E text \in SdTexts :
          calc' = [op |-> "sdRead", file |-> text, line_no |-> 1,
                   reads |-> 0, queued |-> <<>>]
    /\ UNCHANGED <<motion, endstops>>
    /\ FirmwareIdle

\* "Feed G-code lines from SD card when executing": one read, comments and
\* empty lines skipped, the parsed command pushed
sdFeedText ==
    /\ calc.op = "sdRead"
    /\ LET got == sdReadLine(calc.file, GCODE_MAX_LENGTH)
           lineBuf == got.buffer
           sdCmd == parse(Scan(lineBuf))
       IN IF got.ok
          THEN calc' = [calc EXCEPT
                           !.file = got.rest,
                           !.line_no = calc.line_no + got.newlines,
                           !.reads = calc.reads + 1,
                           !.queued =
                               IF /\ lineBuf # <<>>
                                  /\ Head(lineBuf) # ";"
                                  /\ sdCmd.type # "UNKNOWN"
                               THEN Append(calc.queued,
                                           [type |-> sdCmd.type,
                                            from |-> calc.line_no,
                                            length |-> Len(lineBuf)])
                               ELSE calc.queued]
          ELSE calc' = [calc EXCEPT !.op = "sdDone"]
    /\ UNCHANGED <<motion, endstops>>
    /\ FirmwareIdle

NextSdRead ==
    \/ sdOpen
    \/ sdFeedText

SpecSdRead == Init /\ [][NextSdRead]_vars

(* ------------------------------------------------------------------ *)
(* C39  One file line, at most one command                             *)
(* ------------------------------------------------------------------ *)
\* C39: each line of the file being executed produces at most one queued
\* command; a file line longer than the 63 characters one read returns is
\* not split into pieces that are queued as separate commands.
C39_OneCommandPerLine ==
    calc.op \in {"sdRead", "sdDone"} =>
        \A i, j \in 1..Len(calc.queued) :
            calc.queued[i].from = calc.queued[j].from => i = j

(* ------------------------------------------------------------------ *)
(* C40  Line-buffer bound                                              *)
(* ------------------------------------------------------------------ *)
\* char _serial_line[GCODE_MAX_LENGTH + 1]: the last index of the buffer
LastIndex == (GCODE_MAX_LENGTH + 1) - 1

\* C40: for every byte stream, lines longer than 64 characters and streams
\* without a terminator included, the write index of the serial assembler
\* stays within 0..64, no index above 64 of the 65-byte line buffer is
\* written, and the line handed to the parser is terminated by a NUL at
\* index 64 at most, so it has at most 64 characters.
C40_LineBufferBound ==
    /\ Len(uart.serial_line) \in 0..GCODE_MAX_LENGTH
    /\ uart.high <= LastIndex
    /\ uart.handed <= GCODE_MAX_LENGTH

\* a line of exactly 64 characters was handed to the parser, its NUL
\* written at the last index of the buffer
C40_Witness ==
    /\ uart.handed = GCODE_MAX_LENGTH
    /\ uart.high = LastIndex
    /\ uart.lines >= 1

====
